---- MODULE Spec2Model ----
(***************************************************************************)
(* The tmux-delegate orchestrator of pi-agent-extensions: runs of tasks    *)
(* spawned in tmux windows, the completion detector (exit-code file, then  *)
(* pane liveness), the background poll, the status tool and the sync wait. *)
(* Every tool handler and timer callback is one action: the host runs them *)
(* on one JavaScript thread, so each runs from start to finish (or to its  *)
(* await) without another handler in between.  The workers are separate    *)
(* processes and move between handlers.                                    *)
(***************************************************************************)
EXTENDS Integers, Sequences, FiniteSets, TLC

\* ------------------------------------------------------------------ bounds
MaxRuns == 2
\* The runs that the models of one Run start; the models of two Runs use both ids.
MainRuns == 1
MaxTasks == 2
MaxLen == 3
MaxTime == 1
MaxCount == 2

\* ------------------------------------------------------- program constants
\* Mutant: a ceiling one too high.
MAX_PARALLEL_TASKS_OneMore == 8 + 1

MAX_PARALLEL_TASKS == 8

\* ------------------------------------------------------------ value domains
RunIds == 1..MaxRuns
Dirs == {"/a", "/b"}
Digits == <<"0", "1", "2", "3", "4", "5", "6", "7", "8", "9">>
Chars == {"0", "1", "-", "a", " "}
Radix == Len(Digits)

\* An optional value: <<>> is undefined, <<v>> is v.
Undef == <<>>
Some(v) == <<v>>
\* The empty string, as a path or a pane id ("" in the source).
Empty == <<>>

RECURSIVE StringsUpTo(_)
StringsUpTo(n) ==
    IF n = 0 THEN {<<>>}
    ELSE LET shorter == StringsUpTo(n - 1)
         IN  shorter \cup {Append(s, c) : s \in {t \in shorter : Len(t) = n - 1}, c \in Chars}

\* ------------------------------------------------ String.trim, split, parseInt
IsSpace(c) == c = " "
IsDigit(c) == \E i \in 1..Len(Digits) : Digits[i] = c
DigitVal(c) == (CHOOSE i \in 1..Len(Digits) : Digits[i] = c) - 1

RECURSIVE TrimLeft(_)
TrimLeft(s) == IF s # <<>> /\ IsSpace(Head(s)) THEN TrimLeft(Tail(s)) ELSE s

RECURSIVE TrimRight(_)
TrimRight(s) ==
    IF s # <<>> /\ IsSpace(s[Len(s)]) THEN TrimRight(SubSeq(s, 1, Len(s) - 1)) ELSE s

Trim(s) == TrimRight(TrimLeft(s))

\* s.split(/\s+/): the pieces between maximal runs of whitespace; a leading or
\* trailing run leaves an empty piece, and "" splits into [""].
RECURSIVE SplitWs(_)
SplitWs(s) ==
    IF \A k \in 1..Len(s) : ~IsSpace(s[k]) THEN <<s>>
    ELSE LET i == CHOOSE k \in 1..Len(s) :
                      IsSpace(s[k]) /\ \A m \in 1..(k - 1) : ~IsSpace(s[m])
             rest == TrimLeft(SubSeq(s, i, Len(s)))
         IN  <<SubSeq(s, 1, i - 1)>> \o SplitWs(rest)

RECURSIVE DigitsValue(_)
DigitsValue(ds) ==
    IF ds = <<>> THEN 0
    ELSE DigitsValue(SubSeq(ds, 1, Len(ds) - 1)) * Radix + DigitVal(ds[Len(ds)])

RECURSIVE DigitPrefix(_)
DigitPrefix(s) ==
    IF s # <<>> /\ IsDigit(Head(s)) THEN <<Head(s)>> \o DigitPrefix(Tail(s)) ELSE <<>>

\* Number.parseInt(tok, 10): an optional sign, then the longest run of
\* digits; what follows the digits is ignored; no digit at all is NaN.
ParseInt(tok) ==
    LET neg  == tok # <<>> /\ Head(tok) = "-"
        sign == tok # <<>> /\ Head(tok) \in {"-", "+"}
        body == IF sign THEN Tail(tok) ELSE tok
        ds   == DigitPrefix(body)
    IN  IF ds = <<>> THEN [nan |-> TRUE, val |-> 0]
        ELSE [nan |-> FALSE, val |-> IF neg THEN 0 - DigitsValue(ds) ELSE DigitsValue(ds)]

\* ------------------------------------------------------------------- state
VARIABLES
    now,         \* Date.now()
    nextRun,     \* how many run ids randomUUID has handed out
    call,        \* per run: the params and ctx of the TmuxDelegate call that made it
    orig,        \* per run: the RunState object that TmuxDelegate.execute built
    copy,        \* per run: the RunState object the latest TmuxDelegateStatus parsed
    activeRef,   \* per run: which object activeRuns maps the id to
    disk,        \* per run: state.json in the run directory
    initial,     \* per run: state.json as first written by TmuxDelegate.execute
    exitFile,    \* per run and task index: the task-i-exitcode.txt file
    panes,       \* the pane ids `tmux list-panes -a` lists
    wait,        \* per run: the sync caller ("none", "pending", "returned")
    aborted,     \* per run: the AbortSignal of the sync caller
    started,     \* per run: tmux-delegate:started events emitted
    completed,   \* per run: tmux-delegate:complete events emitted
    loopOn,      \* pollTimer is set
    ret,         \* what the last tool call returned
    tracing,     \* whether lastRefresh is kept (an observer: no handler reads it)
    lastRefresh, \* per run: what the last refreshRunState saw and did, per task
    inside       \* per run: the call the timer's callback is inside of, as another
                 \* process meets it ("none", "writeFileSync", "refreshTaskStatus")

vars == <<now, nextRun, call, orig, copy, activeRef, disk, initial, exitFile, panes,
          wait, aborted, started, completed, loopOn, ret, tracing, lastRefresh, inside>>

\* groups for UNCHANGED
memVars  == <<orig, copy, activeRef>>
envVars  == <<exitFile, panes>>
callVars == <<nextRun, call, initial, started, tracing>>
waitVars == <<wait, aborted>>

TaskIdx(doc) == 1..Len(doc.tasks)
NoFile == [exists |-> FALSE, content |-> <<>>]
PaneOf(r, i) == <<r, i>>
\* Mutant: an output file named without the task index.
OutputPath_NoIndex(r, i) == <<"output", r, 0>>

OutputPath(r, i) == <<"output", r, i>>
ExitCodePath(r, i) == <<"exitcode", r, i>>
SessionPath(r, i) == <<"session", r, i>>

\* ---------------------------------------------------------- file system, tmux
existsSync(path, fs) == path # Empty /\ fs[path[2]][path[3]].exists
readFileSync(path, fs) == fs[path[2]][path[3]].content

\* execFails: the tmux command threw; the catch answers false.
isTmuxPaneAlive(paneId, listing, execFails) ==
    IF execFails THEN FALSE ELSE paneId \in listing

\* --------------------------------------------------------------- the detector
\* Mutant: the first piece of the untrimmed content.
FirstToken_NoTrim(content) == SplitWs(content)[1]

FirstToken(content) == SplitWs(Trim(content))[1]

\* Number.parseInt(content.trim().split(/\s+/)[0], 10), NaN read as 1, for
\* every content a file of the model can hold.
ExitCodes ==
    [content \in StringsUpTo(MaxLen) |->
        LET code == ParseInt(FirstToken(content))
        IN  IF code.nan THEN 1 ELSE code.val]

ExitCodeOf(content) == ExitCodes[content]

StatusOfExit(exitCode) == IF exitCode = 0 THEN "completed" ELSE "failed"

\* Mutant: refreshTaskStatus without its first line (the early return).
refreshTaskStep_NoEarlyReturn(task, fs, listing, readThrows, execFails, t) ==
    IF existsSync(task.exitCodeFile, fs) /\ ~readThrows
    THEN LET exitCode == ExitCodeOf(readFileSync(task.exitCodeFile, fs))
         IN  [task |-> [task EXCEPT !.exitCode = Some(exitCode),
                                    !.status = StatusOfExit(exitCode),
                                    !.finishedAt = Some(t)],
              read |-> TRUE, queried |-> FALSE]
    ELSE IF task.paneId = Empty
    THEN [task |-> task, read |-> FALSE, queried |-> FALSE]
    ELSE IF ~isTmuxPaneAlive(task.paneId, listing, execFails)
    THEN [task |-> [task EXCEPT !.status = "failed", !.exitCode = Some(1),
                                !.finishedAt = Some(t)],
          read |-> FALSE, queried |-> TRUE]
    ELSE [task |-> task, read |-> FALSE, queried |-> TRUE]

\* Mutant: refreshTaskStatus asking tmux before it looks for the exit-code file.
refreshTaskStep_PaneFirst(task, fs, listing, readThrows, execFails, t) ==
    IF task.status # "running"
    THEN [task |-> task, read |-> FALSE, queried |-> FALSE]
    ELSE IF task.paneId # Empty /\ ~isTmuxPaneAlive(task.paneId, listing, execFails)
    THEN [task |-> [task EXCEPT !.status = "failed", !.exitCode = Some(1),
                                !.finishedAt = Some(t)],
          read |-> FALSE, queried |-> TRUE]
    ELSE IF existsSync(task.exitCodeFile, fs) /\ ~readThrows
    THEN LET exitCode == ExitCodeOf(readFileSync(task.exitCodeFile, fs))
         IN  [task |-> [task EXCEPT !.exitCode = Some(exitCode),
                                    !.status = StatusOfExit(exitCode),
                                    !.finishedAt = Some(t)],
              read |-> TRUE, queried |-> task.paneId # Empty]
    ELSE [task |-> task, read |-> FALSE, queried |-> task.paneId # Empty]

\* Mutant: refreshTaskStatus leaving a Task whose exit-code file holds no
\* integer as it is.
refreshTaskStep_SkipsUnparsed(task, fs, listing, readThrows, execFails, t) ==
    IF task.status # "running"
    THEN [task |-> task, read |-> FALSE, queried |-> FALSE]
    ELSE IF existsSync(task.exitCodeFile, fs) /\ ~readThrows
    THEN LET exitCode == ExitCodeOf(readFileSync(task.exitCodeFile, fs))
         IN  IF ParseInt(FirstToken(readFileSync(task.exitCodeFile, fs))).nan
             THEN [task |-> task, read |-> TRUE, queried |-> FALSE]
             ELSE [task |-> [task EXCEPT !.exitCode = Some(exitCode),
                                         !.status = StatusOfExit(exitCode),
                                         !.finishedAt = Some(t)],
                   read |-> TRUE, queried |-> FALSE]
    ELSE IF task.paneId = Empty
    THEN [task |-> task, read |-> FALSE, queried |-> FALSE]
    ELSE IF ~isTmuxPaneAlive(task.paneId, listing, execFails)
    THEN [task |-> [task EXCEPT !.status = "failed", !.exitCode = Some(1),
                                !.finishedAt = Some(t)],
          read |-> FALSE, queried |-> TRUE]
    ELSE [task |-> task, read |-> FALSE, queried |-> TRUE]

\* Mutant: refreshTaskStatus failing a Task whose pane is gone without giving
\* it an exit code.
refreshTaskStep_NoCodeForLostPane(task, fs, listing, readThrows, execFails, t) ==
    IF task.status # "running"
    THEN [task |-> task, read |-> FALSE, queried |-> FALSE]
    ELSE IF existsSync(task.exitCodeFile, fs) /\ ~readThrows
    THEN LET exitCode == ExitCodeOf(readFileSync(task.exitCodeFile, fs))
         IN  [task |-> [task EXCEPT !.exitCode = Some(exitCode),
                                    !.status = StatusOfExit(exitCode),
                                    !.finishedAt = Some(t)],
              read |-> TRUE, queried |-> FALSE]
    ELSE IF task.paneId = Empty
    THEN [task |-> task, read |-> FALSE, queried |-> FALSE]
    ELSE IF ~isTmuxPaneAlive(task.paneId, listing, execFails)
    THEN [task |-> [task EXCEPT !.status = "failed", !.finishedAt = Some(t)],
          read |-> FALSE, queried |-> TRUE]
    ELSE [task |-> task, read |-> FALSE, queried |-> TRUE]

\* Mutant: a Detector that forgets the pane of a Task it finds over.
refreshTaskStep_ForgetsPane(task, fs, listing, readThrows, execFails, t) ==
    IF task.status # "running"
    THEN [task |-> task, read |-> FALSE, queried |-> FALSE]
    ELSE IF existsSync(task.exitCodeFile, fs) /\ ~readThrows
    THEN LET exitCode == ExitCodeOf(readFileSync(task.exitCodeFile, fs))
         IN  [task |-> [task EXCEPT !.exitCode = Some(exitCode),
                                    !.status = StatusOfExit(exitCode),
                                    !.finishedAt = Some(t),
                                    !.paneId = Empty],
              read |-> TRUE, queried |-> FALSE]
    ELSE IF task.paneId = Empty
    THEN [task |-> task, read |-> FALSE, queried |-> FALSE]
    ELSE IF ~isTmuxPaneAlive(task.paneId, listing, execFails)
    THEN [task |-> [task EXCEPT !.status = "failed", !.exitCode = Some(1),
                                !.finishedAt = Some(t), !.paneId = Empty],
          read |-> FALSE, queried |-> TRUE]
    ELSE [task |-> task, read |-> FALSE, queried |-> TRUE]

\* refreshTaskStatus, with the path it took: task is the TaskState afterwards,
\* read whether the exit-code file gave the answer, queried whether
\* isTmuxPaneAlive was called.
refreshTaskStep(task, fs, listing, readThrows, execFails, t) ==
    IF task.status # "running"
    THEN [task |-> task, read |-> FALSE, queried |-> FALSE]
    ELSE IF existsSync(task.exitCodeFile, fs) /\ ~readThrows
    THEN LET exitCode == ExitCodeOf(readFileSync(task.exitCodeFile, fs))
         IN  [task |-> [task EXCEPT !.exitCode = Some(exitCode),
                                    !.status = StatusOfExit(exitCode),
                                    !.finishedAt = Some(t)],
              read |-> TRUE, queried |-> FALSE]
    ELSE IF task.paneId = Empty
    THEN [task |-> task, read |-> FALSE, queried |-> FALSE]
    ELSE IF ~isTmuxPaneAlive(task.paneId, listing, execFails)
    THEN [task |-> [task EXCEPT !.status = "failed", !.exitCode = Some(1),
                                !.finishedAt = Some(t)],
          read |-> FALSE, queried |-> TRUE]
    ELSE [task |-> task, read |-> FALSE, queried |-> TRUE]

refreshTaskStatus(task, fs, listing, readThrows, execFails, t) ==
    refreshTaskStep(task, fs, listing, readThrows, execFails, t).task

\* Mutant: the Run is failed as soon as one of its Tasks is.
RunStatusOf_FailsFast(status, tasks) ==
    IF \E i \in 1..Len(tasks) : tasks[i].status = "failed" THEN "failed"
    ELSE IF \A i \in 1..Len(tasks) : tasks[i].status # "running" THEN "completed"
    ELSE status

\* Mutant: the Run is over as soon as one of its Tasks is.
RunStatusOf_AnyDone(status, tasks) ==
    IF \E i \in 1..Len(tasks) : tasks[i].status # "running"
    THEN IF \E i \in 1..Len(tasks) : tasks[i].status = "failed" THEN "failed" ELSE "completed"
    ELSE status

RunStatusOf(status, tasks) ==
    IF \A i \in 1..Len(tasks) : tasks[i].status # "running"
    THEN IF \E i \in 1..Len(tasks) : tasks[i].status = "failed" THEN "failed" ELSE "completed"
    ELSE status

\* Mutant: a refresh that stamps the Run only when one of its Tasks changed.
refreshRunState_StampsOnChange(state, fs, listing, rd, ex, t) ==
    LET tasks == [i \in 1..Len(state.tasks) |->
                     refreshTaskStatus(state.tasks[i], fs, listing, rd[i], ex[i], t)]
    IN  [state EXCEPT !.tasks = tasks,
                      !.status = RunStatusOf(state.status, tasks),
                      !.updatedAt = IF tasks # state.tasks THEN t ELSE @]

\* Mutant: a refresh that moves the Tasks that are over to the front.
refreshRunState_FinishedFirst(state, fs, listing, rd, ex, t) ==
    LET tasks == [i \in 1..Len(state.tasks) |->
                     refreshTaskStatus(state.tasks[i], fs, listing, rd[i], ex[i], t)]
        over(task) == task.status # "running"
        going(task) == task.status = "running"
    IN  [state EXCEPT !.tasks = SelectSeq(tasks, over) \o SelectSeq(tasks, going),
                      !.status = RunStatusOf(state.status, tasks),
                      !.updatedAt = t]

\* rd, ex: per task index, whether the file read throws and the tmux command fails.
refreshRunState(state, fs, listing, rd, ex, t) ==
    LET tasks == [i \in 1..Len(state.tasks) |->
                     refreshTaskStatus(state.tasks[i], fs, listing, rd[i], ex[i], t)]
    IN  [state EXCEPT !.tasks = tasks,
                      !.status = RunStatusOf(state.status, tasks),
                      !.updatedAt = t]

\* What one refreshRunState saw and did, task by task.
RefreshRecord(by, state, fs, listing, rd, ex, t) ==
    IF ~tracing THEN Undef ELSE
    Some([by |-> by,
          status |-> refreshRunState(state, fs, listing, rd, ex, t).status,
          tasks |-> [i \in 1..Len(state.tasks) |->
            LET task == state.tasks[i]
                step == refreshTaskStep(task, fs, listing, rd[i], ex[i], t)
            IN  [pre |-> task,
                 post |-> refreshRunState(state, fs, listing, rd, ex, t).tasks[i],
                 exists |-> existsSync(task.exitCodeFile, fs),
                 content |-> IF existsSync(task.exitCodeFile, fs)
                             THEN readFileSync(task.exitCodeFile, fs) ELSE <<>>,
                 readThrows |-> rd[i],
                 alive |-> task.paneId \in listing,
                 execFails |-> ex[i],
                 read |-> step.read,
                 queried |-> step.queried]]])

Faults(n) == [1..n -> BOOLEAN]
NoFaults(n) == [i \in 1..n |-> FALSE]

\* ------------------------------------------------------- TmuxDelegate.execute
\* params: [task, cwd: optional; tasks: optional list of [task, cwd]; wait].
normalizeTasks(params) ==
    IF params.tasks # Undef /\ Len(params.tasks[1]) > 0
    THEN [i \in 1..Len(params.tasks[1]) |->
             [task |-> params.tasks[1][i].task, cwd |-> params.tasks[1][i].cwd]]
    ELSE IF params.task # Undef /\ params.task[1] # ""
    THEN <<[task |-> params.task[1], cwd |-> params.cwd]>>
    ELSE <<>>

createChildSessionFile(r, i) == SessionPath(r, i)

\* Mutant: a child session for every task of a caller with a session file,
\* whatever its directory.
ChildSessionFile_AnyDirectory(r, i, item, ctx) ==
    IF ctx.sessionFile # Undef /\ ctx.sessionDir # Undef
    THEN Some(createChildSessionFile(r, i))
    ELSE Undef

\* The child session of task i, or undefined (lines 700-708).
ChildSessionFile(r, i, item, ctx) ==
    LET taskCwd == IF item.cwd # Undef THEN item.cwd[1] ELSE ctx.cwd
        sameProject == taskCwd = ctx.cwd
    IN  IF ctx.sessionFile # Undef /\ ctx.sessionDir # Undef /\ sameProject
        THEN Some(createChildSessionFile(r, i))
        ELSE Undef

\* spawnTaskInTmux: it throws when tmux new-window and tmux new-session both
\* fail (spawn = "rejected"); else the TaskState of the new window ("window")
\* or of the new session ("session").
spawnTaskInTmux(r, i, task, cwd, childSessionFile, spawn, t) ==
    [threw |-> spawn \notin {"window", "session"},
     task |-> [task |-> task,
               cwd |-> cwd,
               status |-> "running",
               paneId |-> PaneOf(r, i),
               outputFile |-> OutputPath(r, i),
               exitCodeFile |-> ExitCodePath(r, i),
               sessionFile |-> IF childSessionFile # Undef THEN childSessionFile[1] ELSE Empty,
               startedAt |-> t,
               finishedAt |-> Undef,
               exitCode |-> Undef]]

\* The TaskState pushed when spawnTaskInTmux threw (lines 713-729).
FailedLaunch(task, cwd, childSessionFile, t) ==
    [task |-> task,
     cwd |-> cwd,
     status |-> "failed",
     paneId |-> Empty,
     outputFile |-> Empty,
     exitCodeFile |-> Empty,
     sessionFile |-> IF childSessionFile # Undef THEN childSessionFile[1] ELSE Empty,
     startedAt |-> t,
     finishedAt |-> Some(t),
     exitCode |-> Some(1)]

\* Mutant: a turn of the launch loop without its try/catch.
LaunchTask_NoCatch(r, i, item, ctx, spawn, t) ==
    LET taskCwd == IF item.cwd # Undef THEN item.cwd[1] ELSE ctx.cwd
        child   == ChildSessionFile(r, i, item, ctx)
    IN  spawnTaskInTmux(r, i, item.task, taskCwd, child, spawn, t)

\* One turn of the launch loop (lines 697-729): threw says whether the turn
\* lets an exception out of execute.  spawn = "nosession": the mkdirSync or
\* writeFileSync of createChildSessionFile fails.
LaunchTask(r, i, item, ctx, spawn, t) ==
    LET taskCwd == IF item.cwd # Undef THEN item.cwd[1] ELSE ctx.cwd
        child   == ChildSessionFile(r, i, item, ctx)
        spawned == spawnTaskInTmux(r, i, item.task, taskCwd, child, spawn, t)
    IN  IF spawn = "nosession" /\ child # Undef
        THEN \* createChildSessionFile throws, and it is called outside the try
             [threw |-> TRUE, task |-> FailedLaunch(item.task, taskCwd, Undef, t)]
        ELSE IF spawned.threw
        THEN [threw |-> FALSE, task |-> FailedLaunch(item.task, taskCwd, child, t)]
        ELSE spawned

SpawnOutcomes == {"window", "session", "rejected"}

\* The turns of the launch loop that run: all of them, or those up to the
\* first that throws.
TurnsRun(r, taskList, ctx, spawns, t) ==
    {i \in 1..Len(taskList) :
        \A k \in 1..(i - 1) : ~LaunchTask(r, k, taskList[k], ctx, spawns[k], t).threw}

LaunchThrows(r, taskList, ctx, spawns, t) ==
    \E i \in 1..Len(taskList) : LaunchTask(r, i, taskList[i], ctx, spawns[i], t).threw

NewRunState(r, taskList, ctx, spawns, t) ==
    [id |-> r,
     status |-> "running",
     createdAt |-> t,
     updatedAt |-> t,
     tasks |-> [i \in 1..Len(taskList) |->
                  LaunchTask(r, i, taskList[i], ctx, spawns[i], t).task]]

Bump(n) == IF n < MaxCount THEN n + 1 ELSE n

\* Mutant: a call turned down after createRunDir has made its directory.
Rejected_AfterRunDir(outcome, n) ==
    /\ ret' = [op |-> "TmuxDelegate", run |-> 0, outcome |-> outcome, tasks |-> n]
    /\ nextRun' = nextRun + 1
    /\ UNCHANGED <<now, inside, memVars, disk, envVars, call, initial, started, tracing, waitVars,
                   completed, loopOn, lastRefresh>>

\* Mutant: a call that is turned down after tmux-delegate:started went out.
Rejected_Announced(outcome, n) ==
    /\ ret' = [op |-> "TmuxDelegate", run |-> 0, outcome |-> outcome, tasks |-> n]
    /\ started' = [started EXCEPT ![IF nextRun < MaxRuns THEN nextRun + 1 ELSE MaxRuns] =
                      Bump(@)]
    /\ UNCHANGED <<now, inside, memVars, disk, envVars, nextRun, call, initial, tracing,
                   waitVars, completed, loopOn, lastRefresh>>

\* A call that is turned down before anything is created.
Rejected(outcome, n) ==
    /\ ret' = [op |-> "TmuxDelegate", run |-> 0, outcome |-> outcome, tasks |-> n]
    /\ UNCHANGED <<now, inside, memVars, disk, envVars, callVars, waitVars, completed, loopOn,
                   lastRefresh>>

\* Mutant: execute without its activeRuns.set(runId, state).
StartRun_Unregistered(params, ctx, tmux, spawns, abortedAtCall, rd, ex) ==
    LET taskList == normalizeTasks(params)
        n == Len(taskList)
        r == nextRun + 1
    IN
    IF tmux = "missing" THEN Rejected("NoTmux", n)
    ELSE IF tmux = "outside" THEN Rejected("NotInTmux", n)
    ELSE IF n = 0 THEN Rejected("NoTasks", n)
    ELSE IF n > MAX_PARALLEL_TASKS THEN Rejected("TooManyTasks", n)
    ELSE
    /\ nextRun < MaxRuns
    /\ n \in DOMAIN spawns
    /\ LET state0  == NewRunState(r, taskList, ctx, spawns, now)
           threw   == LaunchThrows(r, taskList, ctx, spawns, now)
           panes1  == panes \cup {PaneOf(r, i) : i \in
                         {k \in TurnsRun(r, taskList, ctx, spawns, now) :
                             spawns[k] \in {"window", "session"}}}
           \* waitForCompletion: the first check runs inside the call
           polls   == params.wait /\ ~abortedAtCall
           state1  == IF polls
                      THEN refreshRunState(state0, exitFile, panes1, rd, ex, now)
                      ELSE state0
           returns == ~params.wait \/ abortedAtCall \/ state1.status # "running"
       IN  /\ nextRun' = r
           /\ call' = [call EXCEPT ![r] =
                         Some([params |-> params, ctx |-> ctx, spawns |-> spawns])]
           /\ panes' = panes1
           /\ IF threw
              THEN \* the exception leaves execute: nothing is written or registered
                   /\ ret' = [op |-> "TmuxDelegate", run |-> r, outcome |-> "threw",
                              tasks |-> n]
                   /\ UNCHANGED <<initial, orig, disk, activeRef, started, wait, aborted,
                                  lastRefresh>>
              ELSE /\ initial' = [initial EXCEPT ![r] = Some(state0)]
                   /\ orig' = [orig EXCEPT ![r] = Some(state1)]
                   /\ disk' = [disk EXCEPT ![r] = Some(state1)]
                   /\ activeRef' = activeRef
                   /\ started' = [started EXCEPT ![r] = Bump(@)]
                   /\ wait' = [wait EXCEPT ![r] = IF ~params.wait THEN "none"
                                                  ELSE IF returns THEN "returned"
                                                  ELSE "pending"]
                   /\ aborted' = [aborted EXCEPT ![r] = params.wait /\ abortedAtCall]
                   /\ lastRefresh' = [lastRefresh EXCEPT ![r] =
                                        IF polls
                                        THEN RefreshRecord("wait", state0, exitFile, panes1,
                                                           rd, ex, now)
                                        ELSE @]
                   /\ ret' = [op |-> "TmuxDelegate", run |-> r,
                              outcome |-> IF returns THEN "ok" ELSE "waiting", tasks |-> n]
           /\ UNCHANGED <<now, inside, copy, exitFile, completed, loopOn, tracing>>

\* tmux: "ok", "missing" (tmux -V fails) or "outside" (TMUX is not set).
\* abortedAtCall: the caller's signal is already aborted when the wait starts.
StartRun(params, ctx, tmux, spawns, abortedAtCall, rd, ex) ==
    LET taskList == normalizeTasks(params)
        n == Len(taskList)
        r == nextRun + 1
    IN
    IF tmux = "missing" THEN Rejected("NoTmux", n)
    ELSE IF tmux = "outside" THEN Rejected("NotInTmux", n)
    ELSE IF n = 0 THEN Rejected("NoTasks", n)
    ELSE IF n > MAX_PARALLEL_TASKS THEN Rejected("TooManyTasks", n)
    ELSE
    /\ nextRun < MaxRuns
    /\ n \in DOMAIN spawns
    /\ LET state0  == NewRunState(r, taskList, ctx, spawns, now)
           threw   == LaunchThrows(r, taskList, ctx, spawns, now)
           panes1  == panes \cup {PaneOf(r, i) : i \in
                         {k \in TurnsRun(r, taskList, ctx, spawns, now) :
                             spawns[k] \in {"window", "session"}}}
           \* waitForCompletion: the first check runs inside the call
           polls   == params.wait /\ ~abortedAtCall
           state1  == IF polls
                      THEN refreshRunState(state0, exitFile, panes1, rd, ex, now)
                      ELSE state0
           returns == ~params.wait \/ abortedAtCall \/ state1.status # "running"
       IN  /\ nextRun' = r
           /\ call' = [call EXCEPT ![r] =
                         Some([params |-> params, ctx |-> ctx, spawns |-> spawns])]
           /\ panes' = panes1
           /\ IF threw
              THEN \* the exception leaves execute: nothing is written or registered
                   /\ ret' = [op |-> "TmuxDelegate", run |-> r, outcome |-> "threw",
                              tasks |-> n]
                   /\ UNCHANGED <<initial, orig, disk, activeRef, started, wait, aborted,
                                  lastRefresh>>
              ELSE /\ initial' = [initial EXCEPT ![r] = Some(state0)]
                   /\ orig' = [orig EXCEPT ![r] = Some(state1)]
                   /\ disk' = [disk EXCEPT ![r] = Some(state1)]
                   /\ activeRef' = [activeRef EXCEPT ![r] = "orig"]
                   /\ started' = [started EXCEPT ![r] = Bump(@)]
                   /\ wait' = [wait EXCEPT ![r] = IF ~params.wait THEN "none"
                                                  ELSE IF returns THEN "returned"
                                                  ELSE "pending"]
                   /\ aborted' = [aborted EXCEPT ![r] = params.wait /\ abortedAtCall]
                   /\ lastRefresh' = [lastRefresh EXCEPT ![r] =
                                        IF polls
                                        THEN RefreshRecord("wait", state0, exitFile, panes1,
                                                           rd, ex, now)
                                        ELSE @]
                   /\ ret' = [op |-> "TmuxDelegate", run |-> r,
                              outcome |-> IF returns THEN "ok" ELSE "waiting", tasks |-> n]
           /\ UNCHANGED <<now, inside, copy, exitFile, completed, loopOn, tracing>>

\* ----------------------------------------------------------- waitForCompletion
\* One later run of check(), from its timer: the sync caller of run r.
WaitPoll(r, rd, ex) ==
    /\ wait[r] = "pending"
    /\ \E state \in {orig[r][1]} :
       \E state1 \in {IF aborted[r] THEN state
                      ELSE refreshRunState(state, exitFile, panes, rd, ex, now)} :
       \E returns \in {aborted[r] \/ state1.status # "running"} :
           /\ orig' = [orig EXCEPT ![r] = Some(state1)]
           /\ disk' = [disk EXCEPT ![r] = Some(state1)]
           /\ wait' = [wait EXCEPT ![r] = IF returns THEN "returned" ELSE "pending"]
           /\ lastRefresh' = [lastRefresh EXCEPT ![r] =
                                IF aborted[r] THEN @
                                ELSE RefreshRecord("wait", state, exitFile, panes, rd, ex, now)]
           /\ ret' = IF returns
                     THEN [op |-> "TmuxDelegate", run |-> r, outcome |-> "ok",
                           tasks |-> Len(state.tasks)]
                     ELSE ret
    /\ UNCHANGED <<now, inside, copy, activeRef, envVars, callVars, aborted, completed, loopOn>>

\* The host aborts the signal of a pending sync call.
Cancel(r) ==
    /\ wait[r] = "pending"
    /\ ~aborted[r]
    /\ aborted' = [aborted EXCEPT ![r] = TRUE]
    /\ UNCHANGED <<now, inside, memVars, disk, envVars, callVars, wait, completed, loopOn, ret,
                   lastRefresh>>

\* --------------------------------------------------- TmuxDelegateStatus.execute
readRunState(r) == disk[r]

ActiveObject(r) ==
    IF activeRef[r] = "orig" THEN orig[r]
    ELSE IF activeRef[r] = "copy" THEN copy[r]
    ELSE Undef

\* Mutant: TmuxDelegateStatus without the activeRuns fallback.
GetRunStatus_DocOnly(r, rd, ex) ==
    IF readRunState(r) = Undef
    THEN /\ ret' = [op |-> "TmuxDelegateStatus", run |-> r, outcome |-> "RunNotFound",
                    tasks |-> 0]
         /\ UNCHANGED <<now, inside, memVars, disk, envVars, callVars, waitVars, completed, loopOn,
                        lastRefresh>>
    ELSE
    LET state1 == refreshRunState(readRunState(r)[1], exitFile, panes, rd, ex, now)
    IN  /\ disk' = [disk EXCEPT ![r] = Some(state1)]
        /\ copy' = [copy EXCEPT ![r] = Some(state1)]
        /\ activeRef' = [activeRef EXCEPT ![r] = "copy"]
        /\ lastRefresh' = [lastRefresh EXCEPT ![r] =
                             RefreshRecord("status", readRunState(r)[1], exitFile, panes,
                                           rd, ex, now)]
        /\ ret' = [op |-> "TmuxDelegateStatus", run |-> r, outcome |-> "ok",
                   tasks |-> Len(state1.tasks)]
        /\ UNCHANGED <<now, inside, orig, envVars, callVars, waitVars, completed, loopOn>>

\* Mutant: TmuxDelegateStatus answering from the document as it finds it.
GetRunStatus_Cached(r, rd, ex) ==
    /\ readRunState(r) # Undef
    /\ copy' = [copy EXCEPT ![r] = readRunState(r)]
    /\ activeRef' = [activeRef EXCEPT ![r] = "copy"]
    /\ lastRefresh' = [lastRefresh EXCEPT ![r] =
                         RefreshRecord("status", readRunState(r)[1], exitFile, panes,
                                       rd, ex, now)]
    /\ ret' = [op |-> "TmuxDelegateStatus", run |-> r, outcome |-> "ok",
               tasks |-> Len(readRunState(r)[1].tasks)]
    /\ UNCHANGED <<now, inside, orig, disk, envVars, callVars, waitVars, completed, loopOn>>

GetRunStatus(r, rd, ex) ==
    LET parsed == readRunState(r)
        active == ActiveObject(r)
    IN
    IF parsed = Undef /\ active = Undef
    THEN /\ ret' = [op |-> "TmuxDelegateStatus", run |-> r, outcome |-> "RunNotFound",
                    tasks |-> 0]
         /\ UNCHANGED <<now, inside, memVars, disk, envVars, callVars, waitVars, completed, loopOn,
                        lastRefresh>>
    ELSE
    LET state  == IF parsed # Undef THEN parsed[1] ELSE active[1]
        state1 == refreshRunState(state, exitFile, panes, rd, ex, now)
    IN  /\ disk' = [disk EXCEPT ![r] = Some(state1)]
        \* a parsed document is a new object; the fallback is the active object itself
        /\ IF parsed # Undef
           THEN /\ copy' = [copy EXCEPT ![r] = Some(state1)]
                /\ activeRef' = [activeRef EXCEPT ![r] = "copy"]
                /\ orig' = orig
           ELSE /\ copy' = IF activeRef[r] = "copy" THEN [copy EXCEPT ![r] = Some(state1)]
                           ELSE copy
                /\ orig' = IF activeRef[r] = "orig" THEN [orig EXCEPT ![r] = Some(state1)]
                           ELSE orig
                /\ activeRef' = activeRef
        /\ lastRefresh' = [lastRefresh EXCEPT ![r] =
                             RefreshRecord("status", state, exitFile, panes, rd, ex, now)]
        /\ ret' = [op |-> "TmuxDelegateStatus", run |-> r, outcome |-> "ok",
                   tasks |-> Len(state.tasks)]
        /\ UNCHANGED <<now, inside, envVars, callVars, waitVars, completed, loopOn>>

\* ------------------------------------------------------------------- pollTimer
\* Mutant: a timer that leaves every Run alone while a sync call is waiting.
Polled_UnlessWaiting(r) ==
    /\ ActiveObject(r) # Undef /\ ActiveObject(r)[1].status = "running"
    /\ \A q \in RunIds : wait[q] # "pending"

\* Whether one tick of the timer refreshes run r.
Polled(r) == ActiveObject(r) # Undef /\ ActiveObject(r)[1].status = "running"

PolledState(r, rd, ex) ==
    refreshRunState(ActiveObject(r)[1], exitFile, panes, rd[r], ex[r], now)

\* One tick: every running run of activeRuns is refreshed and written; a run
\* that is no longer running is announced and dropped.
LoopPass(rd, ex) ==
    /\ loopOn
    /\ \E new \in {[r \in RunIds |->
                       IF Polled(r) THEN Some(PolledState(r, rd, ex)) ELSE Undef]} :
          /\ orig' = [r \in RunIds |->
                        IF new[r] # Undef /\ activeRef[r] = "orig" THEN new[r] ELSE orig[r]]
          /\ copy' = [r \in RunIds |->
                        IF new[r] # Undef /\ activeRef[r] = "copy" THEN new[r] ELSE copy[r]]
          /\ disk' = [r \in RunIds |-> IF new[r] # Undef THEN new[r] ELSE disk[r]]
          /\ completed' = [r \in RunIds |->
                        IF new[r] # Undef /\ new[r][1].status # "running"
                        THEN Bump(completed[r]) ELSE completed[r]]
          /\ activeRef' = [r \in RunIds |->
                        IF new[r] # Undef /\ new[r][1].status # "running"
                        THEN "none" ELSE activeRef[r]]
    /\ lastRefresh' = [r \in RunIds |->
                  IF Polled(r)
                  THEN RefreshRecord("loop", ActiveObject(r)[1], exitFile, panes,
                                     rd[r], ex[r], now)
                  ELSE lastRefresh[r]]
    /\ UNCHANGED <<now, inside, envVars, callVars, waitVars, loopOn, ret>>

\* session_shutdown: clearInterval(pollTimer).
Shutdown ==
    /\ loopOn
    /\ loopOn' = FALSE
    /\ UNCHANGED <<now, inside, memVars, disk, envVars, callVars, waitVars, completed, ret,
                   lastRefresh>>

\* ------------------------------------------------------------------ the workers
\* The command of a window: cd && pi ... | tee out && echo $PIPESTATUS > file.
\* The redirection creates the file empty, echo fills it, and the pane goes
\* when the command ends or when the window is killed.
WorkerCodes == {<<"0">>, <<"1">>}

WorkerOpensExitFile(r, i) ==
    /\ PaneOf(r, i) \in panes
    /\ ~exitFile[r][i].exists
    /\ exitFile' = [exitFile EXCEPT ![r][i] = [exists |-> TRUE, content |-> <<>>]]
    /\ UNCHANGED <<now, inside, memVars, disk, panes, callVars, waitVars, completed, loopOn, ret,
                   lastRefresh>>

WorkerWritesExitCode(r, i, c) ==
    /\ PaneOf(r, i) \in panes
    /\ exitFile[r][i].exists
    /\ exitFile[r][i].content = <<>>
    /\ exitFile' = [exitFile EXCEPT ![r][i] = [exists |-> TRUE, content |-> c]]
    /\ UNCHANGED <<now, inside, memVars, disk, panes, callVars, waitVars, completed, loopOn, ret,
                   lastRefresh>>

PaneGoes(r, i) ==
    /\ PaneOf(r, i) \in panes
    /\ panes' = panes \ {PaneOf(r, i)}
    /\ UNCHANGED <<now, inside, memVars, disk, exitFile, callVars, waitVars, completed, loopOn,
                   ret, lastRefresh>>

Tick ==
    /\ now < MaxTime
    /\ now' = now + 1
    /\ UNCHANGED <<inside, memVars, disk, envVars, callVars, waitVars, completed, loopOn,
                   ret, lastRefresh>>

\* ------------------------------------------------------------ the calls made
TaskSlots == 1..MaxTasks
Instructions == {"", "do"}
OptDirs == {Undef} \cup {Some(d) : d \in Dirs}
Items(instrs, cwds) == [task : instrs, cwd : cwds]
ItemLists(sizes, instrs, cwds) == UNION {[1..n -> Items(instrs, cwds)] : n \in sizes}

\* Every shape of params, with lists of the given sizes.
ParamsOf(sizes, instrs, cwds) ==
    [task : {Undef} \cup {Some(x) : x \in instrs},
     cwd : cwds,
     tasks : {Undef} \cup {Some(l) : l \in ItemLists(sizes, instrs, cwds)},
     wait : BOOLEAN]

Contexts(dirs) ==
    [cwd : dirs,
     sessionFile : {Undef, Some("parent.jsonl")},
     sessionDir : {Undef, Some("/sessions")}]

NoRet == [op |-> "none", run |-> 0, outcome |-> "none", tasks |-> 0]

\* Whether a fault vector only names faults the refresh can meet: a read that
\* throws needs a file to read, a tmux failure needs the query to be made.
Meets(state, rd, ex) ==
    \A i \in TaskSlots :
        /\ rd[i] => /\ i <= Len(state.tasks)
                    /\ state.tasks[i].status = "running"
                    /\ existsSync(state.tasks[i].exitCodeFile, exitFile)
        /\ ex[i] => /\ i <= Len(state.tasks)
                    /\ state.tasks[i].status = "running"
                    /\ state.tasks[i].paneId # Empty
                    /\ ~existsSync(state.tasks[i].exitCodeFile, exitFile) \/ rd[i]

BaseInit ==
    /\ now = 0
    /\ inside = [r \in RunIds |-> "none"]
    /\ nextRun = 0
    /\ call = [r \in RunIds |-> Undef]
    /\ orig = [r \in RunIds |-> Undef]
    /\ copy = [r \in RunIds |-> Undef]
    /\ activeRef = [r \in RunIds |-> "none"]
    /\ disk = [r \in RunIds |-> Undef]
    /\ initial = [r \in RunIds |-> Undef]
    /\ exitFile = [r \in RunIds |-> [i \in TaskSlots |-> NoFile]]
    /\ panes = {}
    /\ wait = [r \in RunIds |-> "none"]
    /\ aborted = [r \in RunIds |-> FALSE]
    /\ started = [r \in RunIds |-> 0]
    /\ completed = [r \in RunIds |-> 0]
    /\ loopOn = TRUE
    /\ ret = NoRet
    /\ lastRefresh = [r \in RunIds |-> Undef]

Init == BaseInit /\ tracing = FALSE

\* The calls of the interleaving model: lists of tasks in the caller's directory.
MainParams == ParamsOf(TaskSlots, {"do"}, {Undef})
MainContexts == Contexts({"/a"})

Start ==
    \E params \in {p \in MainParams : p.task = Undef /\ p.tasks # Undef},
       ctx \in {c \in MainContexts : c.sessionFile = Undef /\ c.sessionDir = Undef},
       spawns \in [TaskSlots -> {"window", "rejected"}],
       abortedAtCall \in BOOLEAN, ex \in Faults(MaxTasks) :
        /\ nextRun < MainRuns
        /\ abortedAtCall => params.wait
        /\ \A i \in TaskSlots :
              ex[i] => /\ params.wait /\ ~abortedAtCall
                       /\ i <= Len(params.tasks[1]) /\ spawns[i] # "rejected"
        /\ \A i \in TaskSlots : i > Len(params.tasks[1]) => spawns[i] = "window"
        /\ StartRun(params, ctx, "ok", spawns, abortedAtCall, NoFaults(MaxTasks), ex)

Poll ==
    \E r \in RunIds, rd \in Faults(MaxTasks), ex \in Faults(MaxTasks) :
        /\ wait[r] = "pending"
        /\ Meets(orig[r][1], rd, ex)
        /\ WaitPoll(r, rd, ex)

Abort == \E r \in RunIds : Cancel(r)

Status ==
    \E r \in 1..MainRuns, rd \in Faults(MaxTasks), ex \in Faults(MaxTasks) :
        /\ IF disk[r] # Undef THEN Meets(disk[r][1], rd, ex)
           ELSE rd = NoFaults(MaxTasks) /\ ex = NoFaults(MaxTasks)
        /\ GetRunStatus(r, rd, ex)

\* The faults a tick can meet: none in a run that it does not refresh.
LoopFaults ==
    {f \in [RunIds -> Faults(MaxTasks)] :
        \A r \in RunIds : ~Polled(r) => f[r] = NoFaults(MaxTasks)}

Loop ==
    \E rd \in LoopFaults, ex \in LoopFaults :
        /\ \A r \in RunIds : Polled(r) => Meets(ActiveObject(r)[1], rd[r], ex[r])
        /\ LoopPass(rd, ex)

\* A tick of the timer on which no file read throws and no tmux command fails.
CleanLoop ==
    LoopPass([r \in RunIds |-> NoFaults(MaxTasks)], [r \in RunIds |-> NoFaults(MaxTasks)])

Worker ==
    \E r \in RunIds, i \in TaskSlots :
        \/ WorkerOpensExitFile(r, i)
        \/ \E c \in WorkerCodes : WorkerWritesExitCode(r, i, c)
        \/ PaneGoes(r, i)

Next == Start \/ Poll \/ Abort \/ Status \/ Loop \/ Shutdown \/ Worker

Spec == Init /\ [][Next]_vars

\* A timer check of a pending sync call on which nothing fails.
CleanPoll ==
    \E r \in RunIds : WaitPoll(r, NoFaults(MaxTasks), NoFaults(MaxTasks))

\* setInterval and setTimeout keep firing, and faults are passing: while the
\* timer is set, ticks on which no read throws and no tmux command fails keep
\* coming, to the poll loop and to a pending sync call.
FairSpec == Spec /\ WF_vars(CleanLoop) /\ WF_vars(CleanPoll)

\* -------------------------------------------- the detector on every file content
\* An async run just started: the first exit-code file holds any string up to
\* MaxLen or is not there, and its pane may be gone; the other workers have
\* yet to write theirs.
FileOf(content) == [exists |-> TRUE, content |-> content]
AnyFiles == {NoFile} \cup {FileOf(c) : c \in StringsUpTo(MaxLen)}
AsyncList(n) == [i \in 1..n |-> [task |-> "do", cwd |-> Undef]]
AsyncParams(n) == [task |-> Undef, cwd |-> Undef, tasks |-> Some(AsyncList(n)), wait |-> FALSE]
PlainContext == [cwd |-> "/a", sessionFile |-> Undef, sessionDir |-> Undef]

AsyncStarted(firstFiles, tracingOn) ==
    \E n \in TaskSlots, spawns \in [TaskSlots -> {"window", "rejected"}],
       files \in [TaskSlots -> firstFiles], live \in SUBSET {PaneOf(1, i) : i \in TaskSlots} :
        LET state0 == NewRunState(1, AsyncList(n), PlainContext, spawns, 0)
            spawned(i) == i <= n /\ spawns[i] # "rejected"
        IN  /\ spawns[1] = "window"
            /\ \A i \in TaskSlots : ~spawned(i) => spawns[i] = "rejected"
            /\ \A i \in TaskSlots : i > 1 => files[i] = NoFile
            /\ \A i \in TaskSlots : PaneOf(1, i) \in live => spawned(i)
            /\ now = 0
            /\ inside = [r \in RunIds |-> "none"]
            /\ nextRun = 1
            /\ call = [r \in RunIds |->
                         IF r = 1
                         THEN Some([params |-> AsyncParams(n), ctx |-> PlainContext,
                                    spawns |-> spawns])
                         ELSE Undef]
            /\ orig = [r \in RunIds |-> IF r = 1 THEN Some(state0) ELSE Undef]
            /\ copy = [r \in RunIds |-> Undef]
            /\ activeRef = [r \in RunIds |-> IF r = 1 THEN "orig" ELSE "none"]
            /\ disk = [r \in RunIds |-> IF r = 1 THEN Some(state0) ELSE Undef]
            /\ initial = [r \in RunIds |-> IF r = 1 THEN Some(state0) ELSE Undef]
            /\ exitFile = [r \in RunIds |-> IF r = 1 THEN files ELSE [i \in TaskSlots |-> NoFile]]
            /\ panes = live
            /\ wait = [r \in RunIds |-> "none"]
            /\ aborted = [r \in RunIds |-> FALSE]
            /\ started = [r \in RunIds |-> IF r = 1 THEN 1 ELSE 0]
            /\ completed = [r \in RunIds |-> 0]
            /\ loopOn = TRUE
            /\ ret = [op |-> "TmuxDelegate", run |-> 1, outcome |-> "ok", tasks |-> n]
            /\ tracing = tracingOn
            /\ lastRefresh = [r \in RunIds |-> Undef]

DetectInit == AsyncStarted(AnyFiles, TRUE)

DetectNext == Status \/ Loop

DetectSpec == DetectInit /\ [][DetectNext]_vars

\* -------------------------------------------------- the interleavings, observed
\* An async run, its workers, the status tool and the timer, with the observer
\* on: every refresh leaves its record in lastRefresh.
ObservedInit == AsyncStarted({NoFile}, TRUE)

ObservedNext == Status \/ Loop \/ Worker

ObservedSpec == ObservedInit /\ [][ObservedNext]_vars

\* ------------------------------------------------------------ the launch alone
\* Every shape of a first TmuxDelegate call, from every caller.
LaunchParams == ParamsOf(0..MaxTasks, Instructions, OptDirs)
LaunchContexts == Contexts(Dirs)

Launch ==
    /\ ret = NoRet
    /\ \E params \in LaunchParams, ctx \in LaunchContexts,
       tmux \in {"ok", "missing", "outside"}, spawns \in [TaskSlots -> SpawnOutcomes],
       abortedAtCall \in BOOLEAN, ex \in Faults(MaxTasks) :
        /\ abortedAtCall => params.wait
        /\ tmux # "ok" => spawns = [i \in TaskSlots |-> "window"] /\ ~abortedAtCall
        /\ \A i \in TaskSlots :
              ex[i] => /\ params.wait /\ ~abortedAtCall /\ tmux = "ok"
                       /\ i <= Len(normalizeTasks(params)) /\ spawns[i] # "rejected"
        /\ \A i \in TaskSlots : i > Len(normalizeTasks(params)) => spawns[i] = "window"
        /\ StartRun(params, ctx, tmux, spawns, abortedAtCall, NoFaults(MaxTasks), ex)

LaunchInit == BaseInit /\ tracing = TRUE

LaunchSpec == LaunchInit /\ [][Launch]_vars

\* --------------------------------------------------- the validation of a call
\* Calls of every size from none to one more than the ceiling, made one after
\* another, from a caller that may have no tmux.
BatchSlots == 1..(MAX_PARALLEL_TASKS + 1)

BatchParams ==
    {[task |-> Undef, cwd |-> Undef, wait |-> w,
      tasks |-> Some([i \in 1..n |-> [task |-> "do", cwd |-> Undef]])] :
        n \in 0..(MAX_PARALLEL_TASKS + 1), w \in BOOLEAN}

ValidationParams == BatchParams \cup ParamsOf({0}, Instructions, {Undef})

\* tmux takes every spawn of a batch, or rejects one of them.
BatchSpawns ==
    {[i \in BatchSlots |-> IF i = k THEN "rejected" ELSE "window"] :
        k \in 0..(MAX_PARALLEL_TASKS + 1)}

Validate ==
    \E params \in ValidationParams, tmux \in {"ok", "missing", "outside"},
       spawns \in BatchSpawns :
        /\ tmux # "ok" => spawns = [i \in BatchSlots |-> "window"]
        /\ \/ nextRun < MainRuns
           \/ tmux # "ok"
           \/ Len(normalizeTasks(params)) \notin 1..MAX_PARALLEL_TASKS
        /\ \A i \in BatchSlots : i > Len(normalizeTasks(params)) => spawns[i] = "window"
        /\ StartRun(params, PlainContext, tmux, spawns, FALSE,
                    [i \in BatchSlots |-> FALSE], [i \in BatchSlots |-> FALSE])

ValidationInit ==
    /\ now = 0
    /\ inside = [r \in RunIds |-> "none"]
    /\ nextRun = 0
    /\ call = [r \in RunIds |-> Undef]
    /\ orig = [r \in RunIds |-> Undef]
    /\ copy = [r \in RunIds |-> Undef]
    /\ activeRef = [r \in RunIds |-> "none"]
    /\ disk = [r \in RunIds |-> Undef]
    /\ initial = [r \in RunIds |-> Undef]
    /\ exitFile = [r \in RunIds |-> [i \in BatchSlots |-> NoFile]]
    /\ panes = {}
    /\ wait = [r \in RunIds |-> "none"]
    /\ aborted = [r \in RunIds |-> FALSE]
    /\ started = [r \in RunIds |-> 0]
    /\ completed = [r \in RunIds |-> 0]
    /\ loopOn = TRUE
    /\ ret = NoRet
    /\ tracing = FALSE
    /\ lastRefresh = [r \in RunIds |-> Undef]

ValidationSpec == ValidationInit /\ [][Validate]_vars

\* ------------------------------------------------------ the storage directory
\* state.json is gone or no longer parses (the runs live under os.tmpdir()):
\* readRunState answers null.
DocLost(r) ==
    /\ disk[r] # Undef
    /\ disk' = [disk EXCEPT ![r] = Undef]
    /\ UNCHANGED <<now, inside, memVars, envVars, callVars, waitVars, completed, loopOn, ret,
                   lastRefresh>>

Lose == \E r \in RunIds : DocLost(r)

\* A session that has started nothing, or one async run; status queries, the
\* timer and the workers, over documents that may get lost.
StorageInit == (BaseInit /\ tracing = TRUE) \/ ObservedInit

StorageNext == Status \/ Loop \/ Worker \/ Lose

StorageSpec == StorageInit /\ [][StorageNext]_vars

\* ------------------------------------------ two sessions, one runs directory
\* Every pi session keeps its runs under os.tmpdir()/pi-tmux-delegate, so the
\* status tool of another session reads the state.json this session writes.
\* writeRunState is one fs.writeFileSync: it opens the file truncating it,
\* writes the JSON and closes; to this session the call is one step, to another
\* process the file is empty or cut short in between.

\* Mutant: a timer that clearInterval does not stop.
TickOpens_Unstoppable(r, rd, ex) ==
    /\ \A q \in RunIds : inside[q] = "none"
    /\ Polled(r)
    /\ \A q \in RunIds \ {r} : ~Polled(q)
    /\ \E new \in {Some(refreshRunState(ActiveObject(r)[1], exitFile, panes, rd, ex, now))} :
          /\ orig' = IF activeRef[r] = "orig" THEN [orig EXCEPT ![r] = new] ELSE orig
          /\ copy' = IF activeRef[r] = "copy" THEN [copy EXCEPT ![r] = new] ELSE copy
    /\ disk' = [disk EXCEPT ![r] = Undef]
    /\ inside' = [inside EXCEPT ![r] = "writeFileSync"]
    /\ lastRefresh' = [lastRefresh EXCEPT ![r] =
                         RefreshRecord("loop", ActiveObject(r)[1], exitFile, panes, rd, ex, now)]
    /\ UNCHANGED <<now, activeRef, envVars, callVars, waitVars, completed, loopOn, ret>>

\* The timer's callback up to the moment writeFileSync has opened state.json of
\* run r, the only run it refreshes: the object is refreshed, the file is empty.
TickOpens(r, rd, ex) ==
    /\ loopOn
    /\ \A q \in RunIds : inside[q] = "none"
    /\ Polled(r)
    /\ \A q \in RunIds \ {r} : ~Polled(q)
    /\ \E new \in {Some(refreshRunState(ActiveObject(r)[1], exitFile, panes, rd, ex, now))} :
          /\ orig' = IF activeRef[r] = "orig" THEN [orig EXCEPT ![r] = new] ELSE orig
          /\ copy' = IF activeRef[r] = "copy" THEN [copy EXCEPT ![r] = new] ELSE copy
    /\ disk' = [disk EXCEPT ![r] = Undef]
    /\ inside' = [inside EXCEPT ![r] = "writeFileSync"]
    /\ lastRefresh' = [lastRefresh EXCEPT ![r] =
                         RefreshRecord("loop", ActiveObject(r)[1], exitFile, panes, rd, ex, now)]
    /\ UNCHANGED <<now, activeRef, envVars, callVars, waitVars, completed, loopOn, ret>>

\* The rest of that callback: the JSON is written, and a run that is no longer
\* running is announced and dropped.
TickWrites(r) ==
    /\ inside[r] = "writeFileSync"
    /\ disk' = [disk EXCEPT ![r] = ActiveObject(r)]
    /\ inside' = [inside EXCEPT ![r] = "none"]
    /\ completed' = [completed EXCEPT ![r] =
                        IF ActiveObject(r)[1].status # "running" THEN Bump(@) ELSE @]
    /\ activeRef' = [activeRef EXCEPT ![r] =
                        IF ActiveObject(r)[1].status # "running" THEN "none" ELSE @]
    /\ UNCHANGED <<now, orig, copy, envVars, callVars, waitVars, loopOn, ret, lastRefresh>>

PeerOp == "TmuxDelegateStatus of another session"

\* TmuxDelegateStatus.execute in another session, whose activeRuns does not
\* hold the id: a state.json that does not parse is answered "not found"; one
\* that parses is refreshed and written back.
PeerStatus(r, rd, ex) ==
    IF readRunState(r) = Undef
    THEN /\ ret' = [op |-> PeerOp, run |-> r, outcome |-> "RunNotFound", tasks |-> 0]
         /\ UNCHANGED <<now, inside, memVars, disk, envVars, callVars, waitVars, completed,
                        loopOn, lastRefresh>>
    ELSE \E state1 \in {refreshRunState(readRunState(r)[1], exitFile, panes, rd, ex, now)} :
            /\ disk' = [disk EXCEPT ![r] = Some(state1)]
            /\ ret' = [op |-> PeerOp, run |-> r, outcome |-> "ok",
                       tasks |-> Len(state1.tasks)]
            /\ UNCHANGED <<now, inside, memVars, envVars, callVars, waitVars, completed,
                           loopOn, lastRefresh>>

SplitTick ==
    \E r \in RunIds :
        \/ \E rd \in Faults(MaxTasks), ex \in Faults(MaxTasks) :
              /\ Polled(r)
              /\ Meets(ActiveObject(r)[1], rd, ex)
              /\ TickOpens(r, rd, ex)
        \/ TickWrites(r)

Peer ==
    \E r \in 1..MainRuns, rd \in Faults(MaxTasks), ex \in Faults(MaxTasks) :
        /\ IF readRunState(r) # Undef THEN Meets(readRunState(r)[1], rd, ex)
           ELSE rd = NoFaults(MaxTasks) /\ ex = NoFaults(MaxTasks)
        /\ PeerStatus(r, rd, ex)

\* An async run of this session, its workers, this session's timer and the
\* status tool of another session.
SharedInit == AsyncStarted({NoFile}, FALSE)

SharedNext == SplitTick \/ Peer \/ Worker

SharedSpec == SharedInit /\ [][SharedNext]_vars

\* ------------------------------------------------------- two runs, one session
\* Two calls of one task each, sync or async, whose spawns tmux takes.
PairParams == {[task |-> Some("do"), cwd |-> Undef, tasks |-> Undef, wait |-> w] : w \in BOOLEAN}

PairStart ==
    \E params \in PairParams :
        StartRun(params, PlainContext, "ok", [i \in TaskSlots |-> "window"], FALSE,
                 NoFaults(MaxTasks), NoFaults(MaxTasks))

\* A status query on which no file read throws and no tmux command fails.
CleanStatus == \E r \in RunIds : GetRunStatus(r, NoFaults(MaxTasks), NoFaults(MaxTasks))

PairNext == PairStart \/ CleanPoll \/ CleanStatus \/ CleanLoop \/ Worker

PairSpec == Init /\ [][PairNext]_vars

\* setInterval keeps firing: ticks on which nothing fails keep coming.
PairFairSpec == PairSpec /\ WF_vars(CleanLoop)

\* -------------------------------------------- a write that fails in the timer
\* One tick in which writeRunState throws for run k (its run directory is gone
\* from os.tmpdir(), or the disk is full).  activeRuns is walked in insertion
\* order, here the order of the ids: the runs before k are refreshed, written
\* and, if over, announced and dropped; run k is refreshed but not written; the
\* exception leaves the callback, so the runs after k are not reached.  No
\* handler of the extension catches it: survives says whether the host goes on
\* (and the timer with it) or ends there.
LoopPassThrows(rd, ex, k, survives) ==
    /\ loopOn
    /\ Polled(k)
    /\ \E new \in {[r \in RunIds |->
                       IF Polled(r) /\ r <= k THEN Some(PolledState(r, rd, ex)) ELSE Undef]} :
          /\ orig' = [r \in RunIds |->
                        IF new[r] # Undef /\ activeRef[r] = "orig" THEN new[r] ELSE orig[r]]
          /\ copy' = [r \in RunIds |->
                        IF new[r] # Undef /\ activeRef[r] = "copy" THEN new[r] ELSE copy[r]]
          /\ disk' = [r \in RunIds |-> IF new[r] # Undef /\ r < k THEN new[r] ELSE disk[r]]
          /\ completed' = [r \in RunIds |->
                        IF new[r] # Undef /\ r < k /\ new[r][1].status # "running"
                        THEN Bump(completed[r]) ELSE completed[r]]
          /\ activeRef' = [r \in RunIds |->
                        IF new[r] # Undef /\ r < k /\ new[r][1].status # "running"
                        THEN "none" ELSE activeRef[r]]
    /\ lastRefresh' = [r \in RunIds |->
                  IF Polled(r) /\ r <= k
                  THEN RefreshRecord("loop", ActiveObject(r)[1], exitFile, panes,
                                     rd[r], ex[r], now)
                  ELSE lastRefresh[r]]
    /\ loopOn' = survives
    /\ UNCHANGED <<now, inside, envVars, callVars, waitVars, ret>>

BrokenLoop ==
    \E k \in RunIds, survives \in BOOLEAN :
        LoopPassThrows([r \in RunIds |-> NoFaults(MaxTasks)],
                       [r \in RunIds |-> NoFaults(MaxTasks)], k, survives)

\* Two async runs of one task each, status queries, the timer and the workers,
\* over a runs directory in which documents get lost and writes can fail.
FragileStart ==
    \E params \in {p \in PairParams : ~p.wait} :
        StartRun(params, PlainContext, "ok", [i \in TaskSlots |-> "window"], FALSE,
                 NoFaults(MaxTasks), NoFaults(MaxTasks))

FragileNext == FragileStart \/ CleanStatus \/ CleanLoop \/ BrokenLoop \/ Worker \/ Lose

FragileSpec == Init /\ [][FragileNext]_vars

\* ------------------------------------------- the detector against its worker
\* refreshTaskStatus asks the file system for the exit-code file and then,
\* in a second system call, tmux for the pane; the worker is another process
\* and goes on between the two.  The timer's callback on a run of one Task,
\* the only run it refreshes, cut at that point.

\* Up to existsSync having found no exit-code file.
TickChecksFile(r) ==
    /\ loopOn
    /\ \A q \in RunIds : inside[q] = "none"
    /\ Polled(r)
    /\ \A q \in RunIds \ {r} : ~Polled(q)
    /\ Len(ActiveObject(r)[1].tasks) = 1
    /\ ActiveObject(r)[1].tasks[1].status = "running"
    /\ ActiveObject(r)[1].tasks[1].paneId # Empty
    /\ ~existsSync(ActiveObject(r)[1].tasks[1].exitCodeFile, exitFile)
    /\ inside' = [inside EXCEPT ![r] = "refreshTaskStatus"]
    /\ UNCHANGED <<now, memVars, disk, envVars, callVars, waitVars, completed, loopOn, ret,
                   lastRefresh>>

\* From isTmuxPaneAlive on: the Task is judged by the panes of this moment,
\* the Run is written and, if over, announced and dropped.
TickChecksPane(r) ==
    /\ inside[r] = "refreshTaskStatus"
    /\ \E new \in {Some(refreshRunState(ActiveObject(r)[1],
                                        [q \in RunIds |-> [i \in TaskSlots |-> NoFile]],
                                        panes, NoFaults(MaxTasks), NoFaults(MaxTasks),
                                        now))} :
          /\ orig' = IF activeRef[r] = "orig" THEN [orig EXCEPT ![r] = new] ELSE orig
          /\ copy' = IF activeRef[r] = "copy" THEN [copy EXCEPT ![r] = new] ELSE copy
          /\ disk' = [disk EXCEPT ![r] = new]
          /\ completed' = [completed EXCEPT ![r] =
                              IF new[1].status # "running" THEN Bump(@) ELSE @]
          /\ activeRef' = [activeRef EXCEPT ![r] =
                              IF new[1].status # "running" THEN "none" ELSE @]
    /\ inside' = [inside EXCEPT ![r] = "none"]
    /\ UNCHANGED <<now, envVars, callVars, waitVars, loopOn, ret, lastRefresh>>

SplitDetector == \E r \in RunIds : TickChecksFile(r) \/ TickChecksPane(r)

\* A whole tick on which nothing fails, when the callback is not under way.
WholeTick == (\A q \in RunIds : inside[q] = "none") /\ CleanLoop

\* An async run, its workers and the timer.
RaceInit == AsyncStarted({NoFile}, FALSE)

RaceNext == SplitDetector \/ WholeTick \/ Worker

RaceSpec == RaceInit /\ [][RaceNext]_vars

\* ------------------------------------------------- a launch that is cut short
\* TmuxDelegate calls from a caller with a session file, so that every task
\* gets a child session: tmux opens a window or rejects it, or the child
\* session cannot be created.
LinkedContext == [cwd |-> "/a", sessionFile |-> Some("parent.jsonl"),
                  sessionDir |-> Some("/sessions")]

CutParams ==
    {[task |-> Undef, cwd |-> Undef, wait |-> FALSE,
      tasks |-> Some([i \in 1..n |-> [task |-> "do", cwd |-> Undef]])] : n \in TaskSlots}

CutSpawns == [TaskSlots -> {"window", "rejected", "nosession"}]

CutStart ==
    \E params \in CutParams, spawns \in CutSpawns :
        /\ nextRun < MainRuns
        /\ \A i \in TaskSlots : i > Len(normalizeTasks(params)) => spawns[i] = "window"
        /\ StartRun(params, LinkedContext, "ok", spawns, FALSE,
                    NoFaults(MaxTasks), NoFaults(MaxTasks))

\* A call whose launch loop has run to its end and whose writeRunState(state)
\* of line 732 throws: the exception leaves execute before activeRuns.set.
StartRunUnsaved(params, ctx, spawns) ==
    LET taskList == normalizeTasks(params)
        n == Len(taskList)
        r == nextRun + 1
    IN  /\ n \in 1..MAX_PARALLEL_TASKS
        /\ n \in DOMAIN spawns
        /\ nextRun < MaxRuns
        /\ ~LaunchThrows(r, taskList, ctx, spawns, now)
        /\ nextRun' = r
        /\ call' = [call EXCEPT ![r] =
                      Some([params |-> params, ctx |-> ctx, spawns |-> spawns])]
        /\ panes' = panes \cup {PaneOf(r, i) : i \in
                        {k \in 1..n : spawns[k] \in {"window", "session"}}}
        /\ ret' = [op |-> "TmuxDelegate", run |-> r, outcome |-> "threw", tasks |-> n]
        /\ UNCHANGED <<now, inside, memVars, disk, exitFile, initial, started, tracing,
                       waitVars, completed, loopOn, lastRefresh>>

UnsavedStart ==
    \E params \in CutParams, spawns \in [TaskSlots -> {"window", "rejected"}] :
        /\ nextRun < MainRuns
        /\ \A i \in TaskSlots : i > Len(normalizeTasks(params)) => spawns[i] = "window"
        /\ StartRunUnsaved(params, LinkedContext, spawns)

CutNext == CutStart \/ UnsavedStart \/ CleanStatus \/ CleanLoop \/ Worker

CutSpec == Init /\ [][CutNext]_vars

\* ------------------------------------------------- tasks that can be told apart
\* Calls whose tasks differ in their working directory, so that the place of
\* a Task in state.tasks can be read off the Task itself.
OrderParams ==
    {[task |-> Undef, cwd |-> Undef, wait |-> w, tasks |-> Some(l)] :
        w \in BOOLEAN, l \in ItemLists(TaskSlots, {"do"}, {Some(d) : d \in Dirs})}

OrderStart ==
    \E params \in OrderParams, spawns \in [TaskSlots -> {"window", "rejected"}] :
        /\ nextRun < MainRuns
        /\ \A i \in TaskSlots : i > Len(normalizeTasks(params)) => spawns[i] = "window"
        /\ StartRun(params, PlainContext, "ok", spawns, FALSE,
                    NoFaults(MaxTasks), NoFaults(MaxTasks))

OrderNext == OrderStart \/ CleanPoll \/ CleanStatus \/ CleanLoop \/ Worker

OrderSpec == Init /\ [][OrderNext]_vars

\* ------------------------------------------------------- calls and their events
\* Calls that are accepted and calls that are turned down - without a task,
\* or with one task more than the ceiling - in one session, with the timer,
\* the sync checks, the status tool and the workers.
EventParams ==
    {[task |-> Undef, cwd |-> Undef, wait |-> w,
      tasks |-> Some([i \in 1..n |-> [task |-> "do", cwd |-> Undef]])] :
        n \in {0} \cup TaskSlots \cup {MAX_PARALLEL_TASKS + 1}, w \in BOOLEAN}

EventStart ==
    \E params \in EventParams, spawns \in [TaskSlots -> {"window", "rejected"}] :
        /\ \/ nextRun < MainRuns
           \/ Len(normalizeTasks(params)) \notin 1..MAX_PARALLEL_TASKS
        /\ \A i \in TaskSlots : i > Len(normalizeTasks(params)) => spawns[i] = "window"
        /\ Len(normalizeTasks(params)) \in {0} \cup TaskSlots \cup {MAX_PARALLEL_TASKS + 1}
        /\ StartRun(params, PlainContext, "ok", spawns, FALSE,
                    NoFaults(MaxTasks), NoFaults(MaxTasks))

EventNext == EventStart \/ CleanPoll \/ CleanStatus \/ CleanLoop \/ Worker

EventSpec == Init /\ [][EventNext]_vars

\* --------------------------------------------------------- session_shutdown
\* The handler of session_shutdown is run by the event loop, and so between
\* callbacks: never while the timer's callback is on the stack.
StopBetweenCallbacks == (\A q \in RunIds : inside[q] = "none") /\ Shutdown

\* An async run, its workers, the timer with its write in two steps, and the
\* shutdown of the session.
StopNext == SplitTick \/ StopBetweenCallbacks \/ Worker

StopSpec == SharedInit /\ [][StopNext]_vars

\* ------------------------------------------------------------- a new session
\* The session ends and a new one loads the extension: activeRuns is a new,
\* empty Map, the RunState objects of the old process are gone, a new timer
\* is set; the run directories, the panes and their workers stay.
Restart ==
    /\ \E r \in RunIds : orig[r] # Undef
    /\ orig' = [r \in RunIds |-> Undef]
    /\ copy' = [r \in RunIds |-> Undef]
    /\ activeRef' = [r \in RunIds |-> "none"]
    /\ wait' = [r \in RunIds |-> "none"]
    /\ loopOn' = TRUE
    /\ ret' = NoRet
    /\ UNCHANGED <<now, inside, disk, envVars, callVars, aborted, completed, lastRefresh>>

\* An async run and its workers; the session is replaced once; status
\* queries and timer ticks on which nothing fails.
RestartNext == Restart \/ CleanStatus \/ CleanLoop \/ Worker

RestartSpec == SharedInit /\ [][RestartNext]_vars

\* setInterval keeps firing in whichever session is there.
RestartFairSpec == RestartSpec /\ WF_vars(CleanLoop)

\* ------------------------------------------------------------- with the clock
\* One Run of one task, sync or async, while Date.now() moves on: sync
\* checks, status queries, timer ticks and the worker.
ClockStart == nextRun < MainRuns /\ PairStart

ClockNext == ClockStart \/ Tick \/ CleanPoll \/ CleanStatus \/ CleanLoop \/ Worker

ClockSpec == Init /\ [][ClockNext]_vars

\* ===================================================================== claims
\* The RunState objects and documents of run r: the object execute built, the
\* object the status tool parsed, state.json, and state.json as first written.
Docs(r) == {d[1] : d \in {x \in {orig[r], copy[r], disk[r], initial[r]} : x # Undef}}

Terminal(status) == status \in {"completed", "failed"}

StatusFromTasks(tasks) ==
    IF \A i \in 1..Len(tasks) : tasks[i].status = "completed" THEN "completed"
    ELSE IF /\ \A i \in 1..Len(tasks) : Terminal(tasks[i].status)
            /\ \E i \in 1..Len(tasks) : tasks[i].status = "failed" THEN "failed"
    ELSE "running"

\* C1: in every reachable state, every in-memory Run and every persisted state
\* document (the one StartRun first writes included) has the status its Tasks
\* give it: completed iff all are completed, failed iff all are terminal and
\* one is failed, running otherwise.
C1_RunStatusFollowsTasks ==
    \A r \in RunIds : \A d \in Docs(r) : d.status = StatusFromTasks(d.tasks)

\* The entries of the last refresh of run r, one per task.
Seen(r) ==
    IF lastRefresh[r] = Undef THEN {}
    ELSE {lastRefresh[r][1].tasks[i] : i \in DOMAIN lastRefresh[r][1].tasks}

\* C2: the Detector applied to a Task that is already completed or failed
\* leaves it exactly as it was, whatever the exit-code file holds and whatever
\* tmux lists at that moment.
C2_TerminalTaskUntouched ==
    \A r \in RunIds : \A e \in Seen(r) :
        Terminal(e.pre.status) =>
            /\ e.post = e.pre
            /\ ~e.read
            /\ ~e.queried

\* C2 witness: a Task failed on an empty exit-code file is seen again, still
\* failed with code 1, when the file holds 0.
C2_Witness ==
    \E r \in RunIds : \E e \in Seen(r) :
        /\ e.pre.status = "failed"
        /\ e.pre.paneId # Empty
        /\ e.exists /\ e.content = <<"0">>
        /\ e.post.status = "failed" /\ e.post.exitCode = Some(1)

\* C3: for every Run, tmux-delegate:complete is emitted at most once, under
\* any interleaving of timer ticks, status queries and sync waits.
C3_CompleteAtMostOnce == \A r \in RunIds : completed[r] <= 1

\* Run r is recorded as over in its state document.
RunOver(r) == disk[r] # Undef /\ Terminal(disk[r][1].status)

\* C4: every Run that reaches a terminal status while the poll loop is running
\* eventually has tmux-delegate:complete emitted, whichever actor saw the
\* transition first.
C4_TerminalRunAnnounced ==
    \A r \in RunIds : (RunOver(r) /\ loopOn) ~> (completed[r] >= 1 \/ ~loopOn)

\* The first whitespace-separated word of a string (empty if it has none).
C5_FirstWord(s) ==
    LET inked == {k \in 1..Len(s) : s[k] # " "}
    IN  IF inked = {} THEN <<>>
        ELSE LET a == CHOOSE k \in inked : \A m \in inked : k <= m
                 b == CHOOSE k \in a..Len(s) :
                          /\ \A m \in a..k : s[m] # " "
                          /\ k = Len(s) \/ s[k + 1] = " "
             IN  [k \in 1..(b - a + 1) |-> s[a + k - 1]]

RECURSIVE C5_Decimal(_, _)
\* The number the first n characters of ds write in decimal.
C5_Decimal(ds, n) ==
    IF n = 0 THEN 0 ELSE 10 * C5_Decimal(ds, n - 1) + DigitVal(ds[n])

\* The integer a word parses to, as <<v>>, or <<>> if it parses to none: an
\* optional sign and the digits that follow it, at least one.
C5_IntegerOf(word) ==
    LET signed == word # <<>> /\ word[1] \in {"-", "+"}
        from   == IF signed THEN 2 ELSE 1
        count  == CHOOSE n \in 0..Len(word) :
                      /\ \A m \in from..(from + n - 1) : m <= Len(word) /\ IsDigit(word[m])
                      /\ from + n > Len(word) \/ ~IsDigit(word[from + n])
        digits == [k \in 1..count |-> word[from + k - 1]]
    IN  IF count = 0 THEN <<>>
        ELSE IF signed /\ word[1] = "-" THEN <<0 - C5_Decimal(digits, count)>>
        ELSE <<C5_Decimal(digits, count)>>

\* C5: for a running Task whose exit-code file exists (and is read), the
\* Detector decides on the first whitespace-separated token of the content:
\* it parses to 0 -> completed with exitCode 0; to another integer -> failed
\* with that exitCode; to no integer (empty content included) -> failed with
\* exitCode 1.  Nothing after the first token matters.
C5_FirstTokenDecides ==
    \A r \in RunIds : \A e \in Seen(r) :
        (e.pre.status = "running" /\ e.exists /\ ~e.readThrows) =>
            LET n == C5_IntegerOf(C5_FirstWord(e.content))
            IN  /\ e.read
                /\ n = <<>> => e.post.status = "failed" /\ e.post.exitCode = Some(1)
                /\ n = <<0>> => e.post.status = "completed" /\ e.post.exitCode = Some(0)
                /\ (n # <<>> /\ n # <<0>>) =>
                       e.post.status = "failed" /\ e.post.exitCode = n

\* C5 witness: a file holding "0 1" (two tokens) completes its Task with code 0.
C5_Witness ==
    \E r \in RunIds : \E e \in Seen(r) :
        /\ e.pre.status = "running"
        /\ e.content = <<"0", " ", "1">>
        /\ e.post.status = "completed"
        /\ e.post.exitCode = Some(0)

\* C6: for a running Task whose exit-code file is absent the Detector asks the
\* backend, and a pane that is gone makes the Task failed with exitCode 1 and
\* finishedAt set; the backend is asked only when the file gave no result.
C6_BackendIsSecondSignal ==
    \A r \in RunIds : \A e \in Seen(r) :
        /\ (e.pre.status = "running" /\ ~e.exists) =>
              /\ e.queried
              /\ ~e.alive => /\ e.post.status = "failed"
                             /\ e.post.exitCode = Some(1)
                             /\ e.post.finishedAt # Undef
        /\ e.queried => /\ ~e.read
                        /\ ~e.exists \/ e.readThrows

\* C6 witness: a running Task without exit-code file whose pane tmux no longer
\* lists is asked about and becomes failed with code 1.
C6_Witness ==
    \E r \in RunIds : \E e \in Seen(r) :
        /\ e.pre.status = "running" /\ ~e.exists
        /\ ~e.alive /\ ~e.execFails /\ e.queried
        /\ e.post.status = "failed" /\ e.post.exitCode = Some(1)

\* C7: the Detector leaves a running Task whose exit-code file is absent and
\* whose pane is still live as it is - running, exitCode and finishedAt unset -
\* and its Run stays running.
C7_LiveTaskStaysRunning ==
    \A r \in RunIds : \A e \in Seen(r) :
        (e.pre.status = "running" /\ ~e.exists /\ e.alive) =>
            /\ e.post.status = "running"
            /\ e.post.exitCode = Undef
            /\ e.post.finishedAt = Undef
            /\ lastRefresh[r][1].status = "running"

\* Task i of the Run activeRuns holds under r is still running.
C8_TrackedRunning(r, i) ==
    /\ ActiveObject(r) # Undef
    /\ i <= Len(ActiveObject(r)[1].tasks)
    /\ ActiveObject(r)[1].tasks[i].status = "running"

\* Its exit-code file is there (opened or filled) or tmux no longer lists its pane.
C8_Signalled(r, i) ==
    LET task == ActiveObject(r)[1].tasks[i]
    IN  existsSync(task.exitCodeFile, exitFile) \/ task.paneId \notin panes

\* C8: while the poll timer is set, a running Task of a tracked Run whose
\* exit-code file has been written (whatever it holds) or whose pane is gone
\* does not stay running: it becomes terminal (and its Run, once over, leaves
\* activeRuns), unless the session shuts the timer down first.
C8_SignalledTaskEnds ==
    \A r \in RunIds : \A i \in TaskSlots :
        (C8_TrackedRunning(r, i) /\ C8_Signalled(r, i) /\ loopOn)
            ~> (~C8_TrackedRunning(r, i) \/ ~loopOn)

\* C8 witness: the timer saw a Run through to its end whose Task was completed
\* by the 0 in its exit-code file while its pane was still listed.
C8_Witness ==
    \E r \in RunIds : \E i \in TaskSlots :
        /\ activeRef[r] = "none" /\ completed[r] >= 1
        /\ i <= Len(disk[r][1].tasks)
        /\ exitFile[r][i] = [exists |-> TRUE, content |-> <<"0">>]
        /\ PaneOf(r, i) \in panes
        /\ disk[r][1].tasks[i].status = "completed"
        /\ disk[r][1].tasks[i].exitCode = Some(0)

\* C9: a TmuxDelegate call that gets as far as launching returns normally
\* whatever tmux does with the spawns: a task whose spawn tmux rejects is in the
\* Run as failed with exitCode 1, finishedAt set and no pane, and every other
\* task of the batch is launched (its pane exists) and starts as running.
C9_SpawnRejectionIsolated ==
    /\ ret.outcome # "threw"
    /\ \A r \in RunIds :
          call[r] # Undef =>
              /\ initial[r] # Undef
              /\ orig[r] # Undef
              /\ LET list  == normalizeTasks(call[r][1].params)
                     tasks == initial[r][1].tasks
                 IN  /\ Len(tasks) = Len(list)
                     /\ \A i \in 1..Len(list) :
                           IF call[r][1].spawns[i] = "rejected"
                           THEN /\ tasks[i].status = "failed"
                                /\ tasks[i].exitCode = Some(1)
                                /\ tasks[i].finishedAt # Undef
                                /\ tasks[i].paneId = Empty
                                /\ orig[r][1].tasks[i] = tasks[i]
                           ELSE /\ tasks[i].status = "running"
                                /\ tasks[i].exitCode = Undef
                                /\ tasks[i].finishedAt = Undef
                                /\ tasks[i].paneId # Empty
                                /\ tasks[i].paneId \in panes

\* C9 witness: a batch of two whose first spawn tmux rejected and whose second
\* it accepted has returned.
C9_Witness ==
    \E r \in RunIds :
        /\ call[r] # Undef /\ initial[r] # Undef
        /\ Len(initial[r][1].tasks) = 2
        /\ call[r][1].spawns[1] = "rejected"
        /\ call[r][1].spawns[2] = "window"
        /\ initial[r][1].tasks[1].status = "failed"
        /\ initial[r][1].tasks[2].status = "running"
        /\ ret.outcome = "ok"

\* The caller of run r has a session on file: session file and session
\* directory are both known.
C10_FileBacked(r) ==
    call[r][1].ctx.sessionFile # Undef /\ call[r][1].ctx.sessionDir # Undef

RunDirs == 1..nextRun

\* A TmuxDelegate call that got past the two tmux checks has just returned.
C11_Validated(answer) ==
    answer.op = "TmuxDelegate" /\ answer.outcome \notin {"NoTmux", "NotInTmux"}

C13_SyncReturnsTerminal ==
    \A r \in RunIds :
        (wait[r] = "returned" /\ ~aborted[r]) =>
            /\ Terminal(orig[r][1].status)
            /\ \A i \in 1..Len(orig[r][1].tasks) :
                  /\ Terminal(orig[r][1].tasks[i].status)
                  /\ orig[r][1].tasks[i].exitCode # Undef

\* C13 witness: a sync call of two tasks returned, not aborted, with both
\* Tasks completed on the 0 in their exit-code files.
C13_Witness ==
    \E r \in RunIds :
        /\ wait[r] = "returned" /\ ~aborted[r]
        /\ Len(orig[r][1].tasks) = 2
        /\ orig[r][1].tasks[1].exitCode = Some(0)
        /\ orig[r][1].tasks[2].exitCode = Some(0)
        /\ orig[r][1].status = "completed"

\* Every Task the sync caller of run r still holds as running has its
\* exit-code file there or its pane gone.
C14_AllSignalled(r) ==
    \A i \in 1..Len(orig[r][1].tasks) :
        LET task == orig[r][1].tasks[i]
        IN  task.status = "running" =>
                existsSync(task.exitCodeFile, exitFile) \/ task.paneId \notin panes

\* C14, first part: once every Task of a pending sync call has its exit-code
\* file or has lost its pane, the call returns.
C14_Returns ==
    \A r \in RunIds : (wait[r] = "pending" /\ C14_AllSignalled(r)) ~> (wait[r] = "returned")

\* C14, second part: it returns at the first check of the wait that runs after
\* the last of these signals (a check on which no read and no tmux command fails).
C14_AtNextPoll ==
    [][\A r \in RunIds :
          (/\ wait[r] = "pending"
           /\ C14_AllSignalled(r)
           /\ WaitPoll(r, NoFaults(MaxTasks), NoFaults(MaxTasks))) =>
              wait'[r] = "returned"]_vars

\* C14, third part: a sync call of one task whose exit-code file has received
\* 0 returns a completed Run.
C14_ZeroCompletes ==
    \A r \in RunIds :
        (/\ wait[r] = "returned" /\ ~aborted[r]
         /\ Len(orig[r][1].tasks) = 1
         /\ exitFile[r][1] = FileOf(<<"0">>)) =>
            orig[r][1].status = "completed"

\* C14: the three parts together.
C14_SyncWaitEnds == C14_Returns /\ C14_AtNextPoll /\ []C14_ZeroCompletes

\* C15, first part: the check of a wait whose signal is aborted returns the
\* call and does not refresh the RunState.
C15_ReturnsAtNextPoll ==
    [][\A r \in RunIds :
          (/\ wait[r] = "pending" /\ aborted[r]
           /\ WaitPoll(r, NoFaults(MaxTasks), NoFaults(MaxTasks))) =>
              /\ wait'[r] = "returned"
              /\ orig'[r] = orig[r]]_vars

\* C15, second part: neither the abort nor the return that follows it takes
\* the Run out of activeRuns or touches a pane or an exit-code file, and a call
\* whose signal is aborted from the start still registers its Run.
C15_LeavesRunAndWorker ==
    [][\A r \in RunIds :
          (aborted'[r] /\ (~aborted[r] \/ wait'[r] # wait[r])) =>
              IF wait[r] = "pending"
              THEN activeRef'[r] = activeRef[r] /\ panes' = panes /\ exitFile' = exitFile
              ELSE activeRef'[r] = "orig"]_vars

\* Every Task of run r has its exit-code file or no pane any more.
C15_WorkersDone(r) ==
    \A i \in 1..Len(initial[r][1].tasks) :
        exitFile[r][i].exists \/ PaneOf(r, i) \notin panes

\* C15, third part: after the aborted call has returned, the poll loop takes
\* the Run to its end and emits tmux-delegate:complete (while its timer is set).
C15_LoopFinishes ==
    \A r \in RunIds :
        (wait[r] = "returned" /\ aborted[r] /\ C15_WorkersDone(r) /\ loopOn)
            ~> (completed[r] >= 1 \/ ~loopOn)

\* C15: the three parts together.
C15_CancelOnlyEndsTheWait ==
    C15_ReturnsAtNextPoll /\ C15_LeavesRunAndWorker /\ C15_LoopFinishes

\* C16: TmuxDelegateStatus refreshes every running Task of the Run before it
\* answers and writes the result: the RunState it returns is the document it
\* has just written, every Task that was running went through the Detector, and
\* no Task whose exit-code file was there and readable is returned as running.
C16_StatusIsFresh ==
    \A r \in RunIds :
        (lastRefresh[r] # Undef /\ lastRefresh[r][1].by = "status") =>
            /\ copy[r] # Undef
            /\ copy[r] = disk[r]
            /\ copy[r][1].status = lastRefresh[r][1].status
            /\ \A i \in 1..Len(copy[r][1].tasks) :
                  LET e == lastRefresh[r][1].tasks[i]
                  IN  /\ copy[r][1].tasks[i] = e.post
                      /\ e.pre.status = "running" => e.read \/ e.queried
                      /\ (e.exists /\ ~e.readThrows) => e.post.status # "running"

\* C16 witness: a status query found the first Task's exit-code file holding 0
\* and the second Task's pane live without file: it returned and wrote the
\* first as completed and the second as running.
C16_Witness ==
    \E r \in RunIds :
        /\ lastRefresh[r] # Undef /\ lastRefresh[r][1].by = "status"
        /\ Len(disk[r][1].tasks) = 2
        /\ lastRefresh[r][1].tasks[1].pre.status = "running"
        /\ lastRefresh[r][1].tasks[1].content = <<"0">>
        /\ disk[r][1].tasks[1].status = "completed"
        /\ lastRefresh[r][1].tasks[2].alive
        /\ disk[r][1].tasks[2].status = "running"
        /\ copy[r] = disk[r]

\* The step is a TmuxDelegateStatus call for run r.
C17_Query(r) ==
    \E rd \in Faults(MaxTasks), ex \in Faults(MaxTasks) : GetRunStatus(r, rd, ex)

\* C17 as stated: a TmuxDelegateStatus call for an id whose state.json is
\* missing or unreadable answers RunNotFound, refreshes nothing, writes
\* nothing and leaves activeRuns as it is.
C17_NoDocumentNotFound ==
    [][\A r \in RunIds :
          (readRunState(r) = Undef /\ C17_Query(r)) =>
              /\ ret'.outcome = "RunNotFound"
              /\ UNCHANGED <<disk, orig, copy, activeRef, lastRefresh>>]_vars

\* C17 amended: a TmuxDelegateStatus call answers RunNotFound exactly when
\* state.json is missing or unreadable and activeRuns does not hold the id
\* either, and then it refreshes nothing, writes nothing and leaves activeRuns
\* as it is.
C17_NotFoundIffUnknown ==
    [][\A r \in RunIds :
          C17_Query(r) =>
              /\ ret'.outcome = "RunNotFound" <=>
                     (readRunState(r) = Undef /\ ActiveObject(r) = Undef)
              /\ ret'.outcome = "RunNotFound" =>
                     UNCHANGED <<disk, orig, copy, activeRef, lastRefresh, panes, exitFile,
                                 completed>>]_vars

\* C17 witness: the document of a Run that the poll loop has announced and
\* dropped is lost, and a status query for it was answered RunNotFound.
C17_Witness ==
    \E r \in RunIds :
        /\ ret.op = "TmuxDelegateStatus" /\ ret.run = r /\ ret.outcome = "RunNotFound"
        /\ nextRun >= r
        /\ completed[r] >= 1
        /\ disk[r] = Undef /\ activeRef[r] = "none"

\* The record of a status query on a Run of two spawned Tasks.
C18_Asked(r) ==
    /\ lastRefresh[r] # Undef
    /\ lastRefresh[r][1].by = "status"
    /\ Len(lastRefresh[r][1].tasks) = 2
    /\ \A i \in 1..2 : lastRefresh[r][1].tasks[i].pre.paneId # Empty

\* C18: a status query on an async Run of two Tasks answers running while
\* neither exit-code file exists and both panes are live; running with exactly
\* one terminal Task while only one file exists (the other pane live); and,
\* once one file holds 0 and the other 1, failed with the one Task completed
\* and the other failed.
C18_TwoTaskStatus ==
    \A r \in RunIds :
        C18_Asked(r) =>
            LET e == lastRefresh[r][1].tasks
                answer == lastRefresh[r][1].status
            IN  /\ (\A i \in 1..2 : ~e[i].exists /\ e[i].alive) => answer = "running"
                /\ \A i \in 1..2 :
                      (e[i].exists /\ ~e[3 - i].exists /\ e[3 - i].alive) =>
                          /\ answer = "running"
                          /\ Terminal(e[i].post.status)
                          /\ e[3 - i].post.status = "running"
                /\ \A i \in 1..2 :
                      (/\ e[i].exists /\ e[i].content = <<"0">>
                       /\ e[3 - i].exists /\ e[3 - i].content = <<"1">>) =>
                          /\ answer = "failed"
                          /\ e[i].post.status = "completed"
                          /\ e[3 - i].post.status = "failed"

\* C19: the status in state.json never goes from completed or failed back to
\* running, whatever writes the document next: a timer tick, a status query,
\* a check of a sync wait, or the write a sync call makes after its wait ended
\* on an aborted signal.
C19_DocumentStaysTerminal ==
    [][\A r \in RunIds :
          (disk[r] # Undef /\ Terminal(disk[r][1].status)) =>
              (disk'[r] # Undef /\ Terminal(disk'[r][1].status))]_vars

\* C20: once state.json records a Task as completed or failed with an exit
\* code, every later write of the document - by the timer, a status query or a
\* sync wait, each from its own copy of the Run - records the same status and
\* the same exit code for that Task.
C20_WritesConverge ==
    [][\A r \in RunIds :
          disk[r] # Undef =>
              \A i \in 1..Len(disk[r][1].tasks) :
                  Terminal(disk[r][1].tasks[i].status) =>
                      /\ disk'[r] # Undef
                      /\ disk'[r][1].tasks[i].status = disk[r][1].tasks[i].status
                      /\ disk'[r][1].tasks[i].exitCode = disk[r][1].tasks[i].exitCode]_vars

\* C21: the status tool of another session that shares the runs directory
\* never finds the state.json of a Run that has been written empty or cut
\* short: a Run whose document was written is never answered "not found"
\* because this session is in the middle of writing it again.
C21_ReadersSeeWholeDocument ==
    (ret.op = PeerOp /\ initial[ret.run] # Undef) => ret.outcome # "RunNotFound"

\* The step is a tick of the timer that reaches run k while its state.json is
\* missing or unreadable, or while its run directory cannot be written.
C22_Reached(k) ==
    \/ disk[k] = Undef /\ Polled(k) /\ CleanLoop
    \/ \E survives \in BOOLEAN :
          LoopPassThrows([r \in RunIds |-> NoFaults(MaxTasks)],
                         [r \in RunIds |-> NoFaults(MaxTasks)], k, survives)

\* C22, first part: the tick skips that Run: its RunState, its place in
\* activeRuns and its events are as before.
C22_SkipsRun ==
    [][\A k \in RunIds :
          C22_Reached(k) =>
              /\ orig'[k] = orig[k] /\ copy'[k] = copy[k]
              /\ activeRef'[k] = activeRef[k]
              /\ completed'[k] = completed[k]]_vars

\* C22, second part: the same tick refreshes and writes every other running
\* Run of activeRuns whose document is there.
C22_ReachesOthers ==
    [][\A k \in RunIds :
          C22_Reached(k) =>
              \A q \in RunIds \ {k} :
                  (Polled(q) /\ disk[q] # Undef) =>
                      disk'[q] = Some(PolledState(q, [r \in RunIds |-> NoFaults(MaxTasks)],
                                                  [r \in RunIds |-> NoFaults(MaxTasks)]))]_vars

\* C22, third part: the timer stays set.
C22_KeepsRunning ==
    [][\A k \in RunIds : C22_Reached(k) => loopOn']_vars

\* C22: when the timer reaches a Run whose state.json or run directory is
\* missing or corrupt, it skips that Run for this tick, still refreshes and
\* writes every other active Run in the same tick, and stays set.
C22_LoopToleratesLoss == C22_SkipsRun /\ C22_ReachesOthers /\ C22_KeepsRunning

\* C23, first part: in every RunState object and document, a Task has its
\* exitCode iff it has its finishedAt iff its status is completed or failed.
C23_SetTogether ==
    \A r \in RunIds : \A d \in Docs(r) : \A i \in 1..Len(d.tasks) :
        /\ d.tasks[i].exitCode # Undef <=> d.tasks[i].finishedAt # Undef
        /\ d.tasks[i].finishedAt # Undef <=> Terminal(d.tasks[i].status)

\* The step is a status query that parses state.json of run r into a new object.
C23_Parses(r) == readRunState(r) # Undef /\ C17_Query(r)

\* C23, second part: a Task that is completed or failed in a RunState object
\* in memory keeps its status, exitCode and finishedAt in that object, whatever
\* refreshes the object next.
C23_SetOnce ==
    [][\A r \in RunIds :
          /\ orig[r] # Undef =>
                \A i \in 1..Len(orig[r][1].tasks) :
                    Terminal(orig[r][1].tasks[i].status) =>
                        orig'[r][1].tasks[i] = orig[r][1].tasks[i]
          /\ (copy[r] # Undef /\ ~C23_Parses(r)) =>
                \A i \in 1..Len(copy[r][1].tasks) :
                    Terminal(copy[r][1].tasks[i].status) =>
                        copy'[r][1].tasks[i] = copy[r][1].tasks[i]]_vars

\* C23: status, exitCode and finishedAt of a Task are set together - by the
\* Detector or by a failed launch - and, on one object in memory, only once.
C23_TerminalFieldsSetOnce == []C23_SetTogether /\ C23_SetOnce

\* C23 witness: a refresh met the first Task completed with code 0 and its
\* pane gone and left it as it was, and in the same refresh failed the second
\* Task, whose pane was gone too, setting its exitCode and finishedAt.
C23_Witness ==
    \E r \in RunIds :
        /\ lastRefresh[r] # Undef
        /\ Len(lastRefresh[r][1].tasks) = 2
        /\ LET e == lastRefresh[r][1].tasks
           IN  /\ e[1].pre.status = "completed" /\ e[1].pre.exitCode = Some(0)
               /\ e[1].pre.finishedAt # Undef
               /\ ~e[1].alive
               /\ e[1].post = e[1].pre
               /\ e[2].pre.status = "running" /\ e[2].pre.exitCode = Undef
               /\ e[2].pre.finishedAt = Undef
               /\ e[2].post.status = "failed" /\ e[2].post.exitCode = Some(1)
               /\ e[2].post.finishedAt # Undef

\* Every Task of a RunState is completed or failed.
C24_TasksOver(d) == \A i \in 1..Len(d.tasks) : Terminal(d.tasks[i].status)

\* C24, in memory and in state.json: a RunState whose status is completed or
\* failed has no running Task.
C24_InEveryDocument ==
    \A r \in RunIds : \A d \in Docs(r) : Terminal(d.status) => C24_TasksOver(d)

\* C24, in the event: the RunState that tmux-delegate:complete carries - the
\* one the timer has just written - is over and has no running Task.
C24_InEveryNotification ==
    [][\A r \in RunIds :
          completed'[r] # completed[r] =>
              /\ disk'[r] # Undef
              /\ Terminal(disk'[r][1].status)
              /\ C24_TasksOver(disk'[r][1])]_vars

\* C24: no actor records a Run as completed or failed while one of its Tasks
\* is still running.
C24_RunEndsAfterItsTasks == []C24_InEveryDocument /\ C24_InEveryNotification

\* C24 witness: a Run of two Tasks was announced as failed, one Task failed
\* while its pane was gone and no exit-code file was there, the other
\* completed on the 0 in its file.
C24_Witness ==
    \E r \in RunIds : \E i \in 1..2 :
        /\ completed[r] = 1 /\ activeRef[r] = "none"
        /\ disk[r] # Undef /\ Len(disk[r][1].tasks) = 2
        /\ disk[r][1].status = "failed"
        /\ disk[r][1].tasks[i].status = "failed"
        /\ ~exitFile[r][i].exists /\ PaneOf(r, i) \notin panes
        /\ disk[r][1].tasks[3 - i].status = "completed"
        /\ exitFile[r][3 - i] = FileOf(<<"0">>)

\* C25 as stated: in every RunState, no two Tasks have the same outputFile and
\* no two have the same exitCodeFile, spawned or not.
C25_PathsUnique ==
    \A r \in RunIds : \A d \in Docs(r) : \A i, j \in 1..Len(d.tasks) :
        i # j => /\ d.tasks[i].outputFile # d.tasks[j].outputFile
                 /\ d.tasks[i].exitCodeFile # d.tasks[j].exitCodeFile

\* C25 amended: no two Tasks that tmux spawned have the same outputFile or the
\* same exitCodeFile, and a Task whose spawn failed has neither (both are "").
C25_SpawnedPathsUnique ==
    \A r \in RunIds : \A d \in Docs(r) : \A i \in 1..Len(d.tasks) :
        IF d.tasks[i].paneId = Empty
        THEN d.tasks[i].outputFile = Empty /\ d.tasks[i].exitCodeFile = Empty
        ELSE /\ d.tasks[i].outputFile # Empty /\ d.tasks[i].exitCodeFile # Empty
             /\ \A j \in 1..Len(d.tasks) :
                   i # j => /\ d.tasks[i].outputFile # d.tasks[j].outputFile
                            /\ d.tasks[i].exitCodeFile # d.tasks[j].exitCodeFile

\* C25 witness: a Run of two spawned Tasks, each with its own output file and
\* its own exit-code file.
C25_Witness ==
    \E r \in RunIds :
        /\ initial[r] # Undef /\ Len(initial[r][1].tasks) = 2
        /\ \A i \in 1..2 : initial[r][1].tasks[i].paneId # Empty
        /\ initial[r][1].tasks[1].outputFile # initial[r][1].tasks[2].outputFile
        /\ initial[r][1].tasks[1].exitCodeFile # initial[r][1].tasks[2].exitCodeFile

\* C26, first part: the tick on which the timer finds a running Run of
\* activeRuns to be over writes that RunState to state.json, emits
\* tmux-delegate:complete for it and takes it out of activeRuns.
C26_EndsInOnePass ==
    [][\A r \in RunIds :
          (Polled(r) /\ Loop /\ disk'[r] # Undef /\ Terminal(disk'[r][1].status)) =>
              /\ disk'[r] = (IF activeRef[r] = "orig" THEN orig'[r] ELSE copy'[r])
              /\ completed'[r] = Bump(completed[r])
              /\ activeRef'[r] = "none"]_vars

\* C26, second part: after that, no tick refreshes the Run again.
C26_NotPolledAgain ==
    [][\A r \in RunIds : (completed[r] >= 1 /\ Loop) => ~Polled(r)]_vars

\* C26, third part: and a status query still finds its state.json.
C26_StillAnswered ==
    [][\A r \in RunIds :
          (completed[r] >= 1 /\ C17_Query(r)) =>
              /\ readRunState(r) # Undef
              /\ ret'.outcome = "ok"]_vars

\* C26: the three parts together.
C26_AnnouncedRunLeavesTheLoop == C26_EndsInOnePass /\ C26_NotPolledAgain /\ C26_StillAnswered

\* The sync call that made run r is waiting.
C27_Waiting(r) == wait[r] = "pending"

\* activeRuns holds run q and its RunState says running.
C27_Tracked(q) == ActiveObject(q) # Undef /\ ActiveObject(q)[1].status = "running"

\* C27, first part: while a sync call waits on one Run, the timer's tick and a
\* status query for any other Run can run.
C27_OthersStayEnabled ==
    \A r \in RunIds :
        C27_Waiting(r) =>
            /\ ENABLED CleanLoop
            /\ \A q \in RunIds \ {r} :
                  ENABLED GetRunStatus(q, NoFaults(MaxTasks), NoFaults(MaxTasks))

\* C27, second part: and they do their work: the tick refreshes and writes
\* every other running Run of activeRuns, the query refreshes, writes and
\* answers the other Run.
C27_OthersProgress ==
    [][\A r \in RunIds : \A q \in RunIds \ {r} :
          C27_Waiting(r) =>
              /\ (CleanLoop /\ C27_Tracked(q)) =>
                    disk'[q] = Some(refreshRunState(ActiveObject(q)[1], exitFile, panes,
                                                    NoFaults(MaxTasks), NoFaults(MaxTasks),
                                                    now))
              /\ (GetRunStatus(q, NoFaults(MaxTasks), NoFaults(MaxTasks))
                  /\ readRunState(q) # Undef) =>
                    /\ ret'.outcome = "ok"
                    /\ disk'[q] = Some(refreshRunState(readRunState(q)[1], exitFile, panes,
                                                       NoFaults(MaxTasks), NoFaults(MaxTasks),
                                                       now))]_vars

\* C27, third part: a check of the wait on one Run and a status query for one
\* Run leave every other Run as it is: its objects, its document, its place
\* in activeRuns, its wait, its events, its files and the panes.
C27_OthersUntouched ==
    [][\A r \in RunIds :
          (\/ WaitPoll(r, NoFaults(MaxTasks), NoFaults(MaxTasks))
           \/ GetRunStatus(r, NoFaults(MaxTasks), NoFaults(MaxTasks))) =>
              /\ panes' = panes
              /\ \A q \in RunIds \ {r} :
                    /\ orig'[q] = orig[q] /\ copy'[q] = copy[q] /\ disk'[q] = disk[q]
                    /\ activeRef'[q] = activeRef[q]
                    /\ wait'[q] = wait[q] /\ aborted'[q] = aborted[q]
                    /\ completed'[q] = completed[q]
                    /\ exitFile'[q] = exitFile[q]]_vars

\* C27, fourth part: a running Run of activeRuns whose workers are done leaves
\* the loop, however long the sync call on another Run goes on waiting.
C27_OthersFinish ==
    \A q \in RunIds :
        (C27_Tracked(q) /\ initial[q] # Undef /\ C15_WorkersDone(q)) ~> ~C27_Tracked(q)

\* C27: the four parts together.
C27_RunsAreIndependent ==
    []C27_OthersStayEnabled /\ C27_OthersProgress /\ C27_OthersUntouched /\ C27_OthersFinish

\* C27 witness: the sync call on one Run is still waiting, its worker not
\* done, while the timer has taken another Run to its end and a status query
\* for that Run was answered.
C27_Witness ==
    \E r \in RunIds : \E q \in RunIds \ {r} :
        /\ C27_Waiting(r)
        /\ orig[r][1].status = "running" /\ ~exitFile[r][1].exists /\ PaneOf(r, 1) \in panes
        /\ completed[q] = 1 /\ activeRef[q] = "copy"
        /\ Terminal(disk[q][1].status)
        /\ ret = [op |-> "TmuxDelegateStatus", run |-> q, outcome |-> "ok", tasks |-> 1]

\* C28: a Task whose exit-code file holds the 0 its worker wrote is not
\* recorded as failed - in no RunState object and in no document - also when
\* the redirection had created the file before echo filled it, and when the
\* file appeared and the pane went between the Detector's two checks.
C28_ZeroIsNeverFailed ==
    \A r \in RunIds : \A i \in TaskSlots :
        exitFile[r][i] = FileOf(<<"0">>) =>
            \A d \in Docs(r) : i <= Len(d.tasks) => d.tasks[i].status # "failed"

\* C29: after every operation every Run in activeRuns is running - a Run
\* that a sync wait or a status query has seen end is not left in the map,
\* and a status query on a Run that is over does not put it back.
C29_ActiveRunsAreRunning ==
    \A r \in RunIds :
        activeRef[r] # "none" => ActiveObject(r)[1].status = "running"

\* C30: when a TmuxDelegate call ends, every pane it has opened belongs to a
\* Run whose state.json is written and which is in activeRuns - also when
\* the child session of a later task cannot be created, or the first
\* writeRunState fails.
C30_SpawnedWorkersAreTracked ==
    [][nextRun' # nextRun =>
          \A i \in TaskSlots :
              PaneOf(nextRun', i) \in panes' =>
                  /\ disk'[nextRun'] # Undef
                  /\ activeRef'[nextRun'] # "none"]_vars

\* C31: a running Task is made failed by the backend query only when tmux
\* answered and its answer does not list the Task's pane; a query that itself
\* failed never makes a Task failed.
C31_FailedQueryIsNoSignal ==
    \A r \in RunIds : \A e \in Seen(r) :
        (e.pre.status = "running" /\ e.queried /\ e.post.status = "failed") =>
            /\ ~e.execFails
            /\ ~e.alive

\* C32: in every RunState object and document of a Run, state.tasks has one
\* Task per task of the request, Task i being the one made for task i -
\* its instruction, its directory and, if it was spawned, its pane and files,
\* else the empty pane of a failed launch - and this stays so whichever
\* Task ends first.
C32_TaskOrderIsRequestOrder ==
    \A r \in RunIds : call[r] # Undef =>
        LET taskList == normalizeTasks(call[r][1].params)
            spawn(i) == call[r][1].spawns[i]
        IN  \A d \in Docs(r) :
                /\ Len(d.tasks) = Len(taskList)
                /\ \A i \in 1..Len(taskList) :
                      /\ d.tasks[i].task = taskList[i].task
                      /\ d.tasks[i].cwd = IF taskList[i].cwd # Undef
                                          THEN taskList[i].cwd[1]
                                          ELSE call[r][1].ctx.cwd
                      /\ d.tasks[i].paneId = IF spawn(i) = "rejected"
                                             THEN Empty ELSE PaneOf(r, i)
                      /\ d.tasks[i].exitCodeFile = IF spawn(i) = "rejected"
                                                   THEN Empty ELSE ExitCodePath(r, i)

\* C32 witness: a written Run of two tasks in different directories whose
\* second Task is over while the first is still running.
C32_Witness ==
    \E r \in RunIds :
        /\ disk[r] # Undef
        /\ Len(disk[r][1].tasks) = 2
        /\ disk[r][1].tasks[1].cwd # disk[r][1].tasks[2].cwd
        /\ disk[r][1].tasks[1].status = "running"
        /\ disk[r][1].tasks[2].status = "completed"

\* C33: a TmuxDelegate call without wait that is accepted returns at once
\* with the run id: state.json is written and holds the state as launched,
\* one Task per task, activeRuns holds the object the result carries, every
\* spawned Task is in it with its pane and still running, no refresh was
\* made and nothing is waited for.
C33_AsyncStartReturnsAtOnce ==
    [][(/\ nextRun' = nextRun + 1
        /\ ~call'[nextRun'][1].params.wait
        /\ ret'.outcome \notin {"NoTmux", "NotInTmux", "NoTasks", "TooManyTasks"}) =>
          LET r == nextRun'
              n == Len(normalizeTasks(call'[r][1].params))
          IN  /\ ret' = [op |-> "TmuxDelegate", run |-> r, outcome |-> "ok", tasks |-> n]
              /\ disk'[r] # Undef
              /\ disk'[r] = initial'[r]
              /\ activeRef'[r] = "orig"
              /\ orig'[r] = disk'[r]
              /\ Len(orig'[r][1].tasks) = n
              /\ \A i \in 1..n :
                    call'[r][1].spawns[i] # "rejected" =>
                        /\ orig'[r][1].tasks[i].paneId = PaneOf(r, i)
                        /\ PaneOf(r, i) \in panes'
                        /\ orig'[r][1].tasks[i].status = "running"
                        /\ orig'[r][1].tasks[i].finishedAt = Undef
              /\ orig'[r][1].status = "running"
              /\ lastRefresh'[r] = lastRefresh[r]
              /\ wait'[r] = "none"]_vars

\* C33 witness: an async call of two tasks has returned ok, both panes are
\* open, the document is written and the Run is in activeRuns.
C33_Witness ==
    /\ ret.op = "TmuxDelegate" /\ ret.outcome = "ok" /\ ret.tasks = 2
    /\ ~call[ret.run][1].params.wait
    /\ disk[ret.run] # Undef
    /\ activeRef[ret.run] = "orig"
    /\ \A i \in 1..2 : PaneOf(ret.run, i) \in panes

\* tmux-delegate:started has gone out once for every Run made and for no other.
C34_OncePerRun ==
    \A r \in RunIds : started[r] = IF r \in RunDirs THEN 1 ELSE 0

\* The step that emits tmux-delegate:started leaves state.json written, and
\* no tmux-delegate:complete of the Run has gone out by then.
C34_AfterTheDocument ==
    [][\A r \in RunIds :
          started'[r] # started[r] =>
              /\ disk'[r] # Undef
              /\ initial'[r] # Undef
              /\ completed'[r] = 0]_vars

\* A tmux-delegate:complete goes out only for a Run whose started went out
\* in an earlier step.
C34_BeforeComplete ==
    [][\A r \in RunIds : completed'[r] # completed[r] => started[r] = 1]_vars

\* A call answered NoTasks or TooManyTasks emits nothing (the step of such a
\* call is the one that leaves that answer as a new result).
C34_NotForRejected ==
    [][(/\ ret' # ret
        /\ ret'.op = "TmuxDelegate"
        /\ ret'.outcome \in {"NoTasks", "TooManyTasks"}) =>
          UNCHANGED <<started, completed>>]_vars

\* C34: tmux-delegate:started is emitted exactly once for every accepted
\* TmuxDelegate call, after the first state.json is written and before any
\* tmux-delegate:complete of the same Run, and never for a call answered
\* NoTasks or TooManyTasks.
C34_StartedOncePerAcceptedCall ==
    /\ []C34_OncePerRun
    /\ C34_AfterTheDocument
    /\ C34_BeforeComplete
    /\ C34_NotForRejected

\* C34 witness: a Run was started and announced as complete, and a later
\* call with one task too many was turned down.
C34_Witness ==
    /\ started[1] = 1
    /\ completed[1] = 1
    /\ ret.op = "TmuxDelegate" /\ ret.outcome = "TooManyTasks"

\* After session_shutdown the timer starts no pass: it refreshes no object,
\* opens and writes no state.json, emits no tmux-delegate:complete and drops
\* no Run.
C35_NoPassAfterStop ==
    [][~loopOn => UNCHANGED <<orig, copy, disk, activeRef, completed, inside,
                              lastRefresh>>]_vars

\* The stop comes when no callback of the timer is under way and writes
\* nothing itself.
C35_StopLeavesDocuments ==
    [][(loopOn /\ ~loopOn') =>
          /\ \A r \in RunIds : inside[r] = "none"
          /\ UNCHANGED <<orig, copy, disk, activeRef, completed, inside>>]_vars

\* Once the timer is stopped every state.json that was written is whole.
C35_DocumentsWhole ==
    ~loopOn => \A r \in RunIds :
                  /\ inside[r] = "none"
                  /\ initial[r] # Undef => disk[r] # Undef

\* C35: after session_shutdown no pass of the timer starts and the timer
\* emits no tmux-delegate:complete; a pass under way runs to its end before
\* the stop takes effect, so that no state.json is left half-written.
C35_StopIsClean ==
    /\ []C35_DocumentsWhole
    /\ C35_NoPassAfterStop
    /\ C35_StopLeavesDocuments

\* C35 witness: the timer is stopped while a Run it tracked is still running
\* with a worker that has written its exit code: a pass would have ended it.
C35_Witness ==
    /\ ~loopOn
    /\ Polled(1)
    /\ \E i \in 1..Len(ActiveObject(1)[1].tasks) :
          /\ ActiveObject(1)[1].tasks[i].status = "running"
          /\ exitFile[1][i].exists
    /\ completed[1] = 0

\* What the Detector is to leave alone in a TaskState.
C36_Rest(task) ==
    [task |-> task.task, cwd |-> task.cwd, paneId |-> task.paneId,
     outputFile |-> task.outputFile, exitCodeFile |-> task.exitCodeFile,
     sessionFile |-> task.sessionFile, startedAt |-> task.startedAt]

\* Every application of the Detector leaves the Task's other fields as they
\* were, and changes its status only on that Task's own file or pane.
C36_OnlyStatusFields ==
    \A r \in RunIds : \A e \in Seen(r) :
        /\ C36_Rest(e.post) = C36_Rest(e.pre)
        /\ e.post # e.pre =>
              /\ e.pre.status = "running"
              /\ e.read \/ e.queried

\* A step that refreshes a Run writes no exit-code file and closes no pane.
C36_FilesOnlyRead ==
    [][lastRefresh' # lastRefresh => UNCHANGED <<exitFile, panes>>]_vars

\* C36: an application of the Detector changes nothing but the status,
\* exitCode and finishedAt of the Task it is applied to: the Task's
\* instruction, directory, pane, output file, exit-code file and session
\* file stay, another Task changes only by its own application, and the
\* files and panes are only read.
C36_DetectorFrame == []C36_OnlyStatusFields /\ C36_FilesOnlyRead

\* C36 witness: the Detector has made a running Task completed from its
\* exit-code file, and the Task still names its pane and its files.
C36_Witness ==
    \E r \in RunIds : \E e \in Seen(r) :
        /\ e.pre.status = "running" /\ e.post.status = "completed"
        /\ e.post.paneId # Empty /\ e.post.paneId = e.pre.paneId
        /\ e.post.exitCodeFile = e.pre.exitCodeFile
        /\ exitFile[r] # [i \in TaskSlots |-> NoFile]

\* Run r was started by a session that is gone.
C37_Restarted(r) == initial[r] # Undef /\ orig[r] = Undef

\* In the new session a status query for a Run of the old one answers with
\* the document as refreshed at that moment, writes it and registers it, so
\* that a Run it leaves running is one the timer refreshes.
C37_QueryRestores ==
    [][\A r \in RunIds :
          (/\ C37_Restarted(r)
           /\ disk[r] # Undef
           /\ GetRunStatus(r, NoFaults(MaxTasks), NoFaults(MaxTasks))) =>
              /\ ret'.outcome = "ok" /\ ret'.run = r
              /\ copy'[r] = Some(refreshRunState(disk[r][1], exitFile, panes,
                                                 NoFaults(MaxTasks), NoFaults(MaxTasks), now))
              /\ disk'[r] = copy'[r]
              /\ activeRef'[r] = "copy"]_vars

\* A Run of the old session that a query has put back as running is
\* announced once its workers are done.
C37_LaterAnnounced ==
    \A r \in RunIds :
        (C37_Restarted(r) /\ Polled(r) /\ C15_WorkersDone(r)) ~> (completed[r] >= 1)

\* C37: after a restart a status query for a Run started before it answers
\* with freshly detected Task statuses, and a Run that is still running is
\* back under the timer, which later detects its end and emits
\* tmux-delegate:complete.
C37_RestartIsSurvived == C37_QueryRestores /\ C37_LaterAnnounced

\* C38: no pane is opened for a task whose instruction is empty, whether the
\* call names one task (task) or several (tasks).
C38_NoWorkerWithoutInstruction ==
    \A r \in RunIds : call[r] # Undef =>
        LET taskList == normalizeTasks(call[r][1].params)
        IN  \A i \in 1..Len(taskList) :
                PaneOf(r, i) \in panes => taskList[i].task # ""

\* After the step the object refreshed for run r and its state.json carry the
\* time of the step.
C39_Stamped(r, object) ==
    /\ object # Undef
    /\ object[1].updatedAt = now
    /\ disk'[r] = object

\* A tick that refreshes run r, a status query for it and a check of its
\* pending sync call that is not aborted each stamp the Run and write it.
C39_EveryRefreshStamps ==
    [][\A r \in RunIds :
          /\ (CleanLoop /\ Polled(r)) =>
                C39_Stamped(r, IF activeRef[r] = "orig" THEN orig'[r] ELSE copy'[r])
          /\ (/\ GetRunStatus(r, NoFaults(MaxTasks), NoFaults(MaxTasks))
              /\ disk[r] # Undef \/ ActiveObject(r) # Undef) =>
                C39_Stamped(r, ActiveObject(r)')
          /\ (WaitPoll(r, NoFaults(MaxTasks), NoFaults(MaxTasks)) /\ ~aborted[r]) =>
                C39_Stamped(r, orig'[r])]_vars

\* createdAt is the time of the call in every object and document of the Run.
C39_CreatedAtStays ==
    \A r \in RunIds : \A d \in Docs(r) : d.createdAt = initial[r][1].createdAt

\* C39: every reconciliation of a Run - a timer pass that refreshes it, a
\* status query, a check of its sync call - sets updatedAt to the current
\* time and writes the Run, also when no Task changed, and createdAt never
\* changes.
C39_UpdatedAtOnEveryRefresh == []C39_CreatedAtStays /\ C39_EveryRefreshStamps

\* C39 witness: a written Run whose Task is as launched, still running, with
\* an updatedAt later than its createdAt.
C39_Witness ==
    \E r \in RunIds :
        /\ disk[r] # Undef
        /\ disk[r][1].tasks = initial[r][1].tasks
        /\ disk[r][1].status = "running"
        /\ disk[r][1].updatedAt > disk[r][1].createdAt
====
